---- MODULE Spec2Model ----
(***************************************************************************)
(* Background crawl pipeline of the web-crawler backend: the CrawlManager  *)
(* (bounded queue, Start/Stop, worker loop, transactional persistence) and *)
(* the StartCrawl / StartBulkCrawl request handlers that submit jobs.      *)
(***************************************************************************)
EXTENDS Integers, Sequences, FiniteSets, TLC

\* ---------------------------------------------------------------- bounds
NumTargets == 1
NumHandlers == 1
MaxRequests == 2
MaxWorkers == 2
NumCallers == 2
MaxScript == 2
CapExtra == 1
MaxHeadingNodes == 3
MaxTitleNodes == 4
MaxFormNodes == 3
MaxLinkNodes == 2
MaxPageNodes == 2
MaxOverCap == 1
MaxPeriod == 4
MaxOverHops == 1
MaxOverSize == 1

\* ------------------------------------------------------ program constants
queueSize == 100
maxLinksToSave == 200
batchSize == 50
maxBulkSize == 10
maxURLLength == 2000
maxTextLength == 500

StatusQueued == "queued"
StatusRunning == "running"
StatusCompleted == "completed"
StatusError == "error"

URLStatus == {StatusQueued, StatusRunning, StatusCompleted, StatusError}

\* A Go nil pointer is the empty option, a non-nil pointer a one-element one.
Nil == <<>>
Some(x) == <<x>>

Min(a, b) == IF a < b THEN a ELSE b

\* ------------------------------------------------- strings of the links
\* Link URLs and anchor texts are sequences of characters.
Space == " "
WhiteChars == {" ", "\n", "\r", "\t"}

RECURSIVE TrimLeft(_)
TrimLeft(s) ==
    IF s # <<>> /\ Head(s) \in WhiteChars THEN TrimLeft(Tail(s)) ELSE s

RECURSIVE TrimRight(_)
TrimRight(s) ==
    IF s # <<>> /\ s[Len(s)] \in WhiteChars
    THEN TrimRight(SubSeq(s, 1, Len(s) - 1))
    ELSE s

TrimSpace(s) == TrimRight(TrimLeft(s))

Truncate(s, n) == IF Len(s) > n THEN SubSeq(s, 1, n) ELSE s

ReplaceAllChar(s, from, to) ==
    [i \in 1..Len(s) |-> IF s[i] = from THEN to ELSE s[i]]

RECURSIVE CollapseSpaces(_)
CollapseSpaces(s) ==
    IF Len(s) < 2 THEN s
    ELSE IF s[1] = Space /\ s[2] = Space THEN CollapseSpaces(Tail(s))
    ELSE <<Head(s)>> \o CollapseSpaces(Tail(s))

normalizeURL(rawURL) == Truncate(TrimSpace(rawURL), maxURLLength)

normalizeText(text) ==
    LET trimmed == TrimSpace(text)
        spaced == ReplaceAllChar(ReplaceAllChar(ReplaceAllChar(trimmed,
                      "\n", Space), "\r", Space), "\t", Space)
        cleaned == Truncate(CollapseSpaces(spaced), maxTextLength)
    IN  IF cleaned = <<>> THEN Nil ELSE Some(cleaned)

\* ------------------------------------------------------------ the pages
LinkInfo(url, text) == [URL |-> url, Text |-> text]

HeadingKeys == {"h1", "h2", "h3", "h4", "h5", "h6"}

\* ParsedData values the parser hands to the manager.
DocA ==
    [HTMLVersion |-> Some("HTML5"), PageTitle |-> Some("A"),
     HeadingCounts |-> [k \in HeadingKeys |-> IF k = "h1" THEN 1 ELSE 0],
     InternalLinks |-> << LinkInfo(<<" ", "/", "a">>, <<"a", " ", " ", "b">>) >>,
     ExternalLinks |-> << LinkInfo(<<"x">>, <<"\n">>) >>,
     HasLoginForm |-> FALSE]

DocB ==
    [HTMLVersion |-> Nil, PageTitle |-> Nil,
     HeadingCounts |-> [k \in HeadingKeys |-> 0],
     InternalLinks |-> << >>,
     ExternalLinks |-> << LinkInfo(<<"y">>, <<"y">>) >>,
     HasLoginForm |-> TRUE]

Docs == {DocA, DocB}

\* Messages of the fetcher's classified errors.
FetchErrors == {"HTTP 404: 404 Not Found", "Request timed out"}

\* -------------------------------------------------------------- storage
\* A store is the committed database together with the pending writes of one
\* open transaction.  A statement runs on a handle: "db" writes the committed
\* tables at once, "tx" writes the transaction, visible to others at commit.
Tables == {"urls", "crawl_results", "found_links"}

EmptyTx == [t \in Tables |-> << >>]

Override(f, g) == [x \in DOMAIN f |-> IF x \in DOMAIN g THEN g[x] ELSE f[x]]

Read(h, store, table, id) ==
    IF h = "tx" /\ id \in DOMAIN store.tx[table]
    THEN store.tx[table][id]
    ELSE store.db[table][id]

Write(h, store, table, id, val) ==
    IF h = "tx"
    THEN [store EXCEPT !.tx[table] =
             [x \in (DOMAIN @) \cup {id} |-> IF x = id THEN val ELSE @[x]]]
    ELSE [store EXCEPT !.db[table][id] = val]

DeleteWhereURLID(h, store, table, urlID) == Write(h, store, table, urlID, << >>)

Create(h, store, table, urlID, rows) ==
    Write(h, store, table, urlID, Read(h, store, table, urlID) \o rows)

Commit(store) ==
    [db |-> [t \in Tables |-> Override(store.db[t], store.tx[t])],
     tx |-> EmptyTx]

Rollback(store) == [db |-> store.db, tx |-> EmptyTx]

\* models.URL row as AddURL creates it.
NewURLRow == [status |-> StatusQueued, error_message |-> Nil]

\* ------------------------------------------------- CrawlManager, storage
updateURLStatusTx(h, store, urlID, status, errorMsg) ==
    LET updates ==
            [status |-> status,
             error_message |-> IF errorMsg # Nil THEN Some(errorMsg[1]) ELSE Nil]
    IN  Write(h, store, "urls", urlID, updates)

updateURLStatus(store, urlID, status, errorMsg) ==
    updateURLStatusTx("db", store, urlID, status, errorMsg)

\* A Go map: a missing key reads as the zero value.
MapGet(m, k) == IF k \in DOMAIN m THEN m[k] ELSE 0

CrawlResultRow(urlID, data) ==
    [URLID |-> urlID,
     HTMLVersion |-> data.HTMLVersion,
     PageTitle |-> data.PageTitle,
     HasLoginForm |-> data.HasLoginForm,
     HeadingCounts |-> [k \in HeadingKeys |-> MapGet(data.HeadingCounts, k)],
     InternalLinksCount |-> Len(data.InternalLinks),
     ExternalLinksCount |-> Len(data.ExternalLinks),
     InaccessibleLinksCount |-> 0]

saveCrawlResults(h, store, urlID, data) ==
    Create(h, DeleteWhereURLID(h, store, "crawl_results", urlID),
           "crawl_results", urlID, << CrawlResultRow(urlID, data) >>)

FoundLinkRow(urlID, link, isInternal) ==
    [URLID |-> urlID,
     LinkURL |-> normalizeURL(link.URL),
     LinkText |-> normalizeText(link.Text),
     IsInternal |-> isInternal,
     IsAccessible |-> Nil]

\* allLinks of saveFoundLinks: internal links, then external ones, cut to
\* the first maxLinksToSave.
AllLinks(urlID, data) ==
    LET internal == [i \in 1..Len(data.InternalLinks) |->
                        FoundLinkRow(urlID, data.InternalLinks[i], TRUE)]
        external == [i \in 1..Len(data.ExternalLinks) |->
                        FoundLinkRow(urlID, data.ExternalLinks[i], FALSE)]
        all == internal \o external
    IN  IF Len(all) > maxLinksToSave THEN SubSeq(all, 1, maxLinksToSave) ELSE all

RECURSIVE CreateInBatches(_, _, _, _, _)
CreateInBatches(h, store, urlID, allLinks, i) ==
    IF i >= Len(allLinks) THEN store
    ELSE LET end == Min(i + batchSize, Len(allLinks))
         IN  CreateInBatches(h,
                 Create(h, store, "found_links", urlID,
                        SubSeq(allLinks, i + 1, end)),
                 urlID, allLinks, i + batchSize)

saveFoundLinks_NoDelete(h, store, urlID, data) ==
    CreateInBatches(h, store, urlID, AllLinks(urlID, data), 0)

saveFoundLinks(h, store, urlID, data) ==
    CreateInBatches(h, DeleteWhereURLID(h, store, "found_links", urlID),
                    urlID, AllLinks(urlID, data), 0)

\* The three writes of handleCrawlSuccess, all on the transaction.
SuccessSaveResults(store, urlID, data) == saveCrawlResults("tx", store, urlID, data)

SuccessSaveLinks(store, urlID, data) == saveFoundLinks("tx", store, urlID, data)

SuccessMarkCompleted_NoTx(store, urlID) ==
    updateURLStatusTx("db", store, urlID, StatusCompleted, Nil)

SuccessMarkCompleted(store, urlID) ==
    updateURLStatusTx("tx", store, urlID, StatusCompleted, Nil)

MarkQueued_KeepMessage(store, urlID) ==
    Write("db", store, "urls", urlID,
          [status |-> StatusQueued,
           error_message |-> store.db.urls[urlID].error_message])

\* The update of StartCrawl / StartBulkCrawl after a job was accepted.
MarkQueued(store, urlID) ==
    Write("db", store, "urls", urlID,
          [status |-> StatusQueued, error_message |-> Nil])

\* ---------------------------------------------------------------- state
VARIABLES
    proc,          \* process: "boot", "serving" (router running), "exited"
    script,        \* per lifecycle caller: the calls it still makes
    lpc,           \* per lifecycle caller: position inside Start / Stop
    isRunning,     \* CrawlManager.isRunning
    queue,         \* CrawlManager.queue: the buffered jobs, oldest first
    closed,        \* CrawlManager.queue has been closed
    wpc,           \* per processQueue goroutine: position, "none" = no goroutine
    wjob,          \* per goroutine: the job in hand, as an option
    wdata,         \* per goroutine: the ParsedData of the job, as an option
    tx,            \* per goroutine: pending writes of its open transaction
    wlog,          \* per goroutine: how the processing of the job ended
    db,            \* committed tables urls, crawl_results, found_links
    hpc,           \* per request goroutine: position in the handler
    hurls,         \* per request goroutine: rows read and still to submit
    hres,          \* per request goroutine: outcome of its last QueueURL
    hlate,         \* per request goroutine: QueueURL was called after close
    budget,        \* QueueURL sends the clients may still start
    env,           \* what the web serves and whether the database can fail
    sawRunning,    \* per target: status was running since it last became queued
    crawlLog,      \* per target: ParsedData of the last two committed crawls
    everDequeued,  \* a job has been received from the queue
    accepted,      \* identifiers of the jobs QueueURL accepted, in order
    started,       \* identifiers of the jobs handed to processSingleJob
    page,          \* the arguments of a call of HTMLParser.Parse
    parsed,        \* what the call returned, as an option
    site,          \* the argument of a call of FetchURL and what the web serves
    fetched        \* what the call returned and did, as an option

mgrVars == <<isRunning, queue, closed>>
lifeVars == <<proc, script, lpc>>
workerVars == <<wpc, wjob, wdata, tx, wlog>>
handlerVars == <<hpc, hurls, hres, hlate>>
histVars == <<sawRunning, crawlLog, everDequeued>>
jobVars == <<accepted, started>>
fetchVars == <<site, fetched>>
parseVars == <<page, parsed, fetchVars>>
vars == <<proc, script, lpc, isRunning, queue, closed, wpc, wjob, wdata, tx,
          wlog, db, hpc, hurls, hres, hlate, budget, env, sawRunning,
          crawlLog, everDequeued, accepted, started, page, parsed, site,
          fetched>>

Targets == 1..NumTargets
Handlers == 1..NumHandlers
Workers == 1..MaxWorkers
Callers == 1..NumCallers

URLIDs == DOMAIN db.urls

\* errorWrite: "done", "failed" or "none" (the code made no such write).
NoLog == [outcome |-> "none", msg |-> Nil, errorWrite |-> "none"]

CrawlJob(urlID) == [URLID |-> urlID]

RECURSIVE SeqsUpTo(_, _)
SeqsUpTo(S, n) ==
    IF n = 0 THEN {<< >>}
    ELSE LET shorter == SeqsUpTo(S, n - 1)
         IN  shorter \cup {Append(q, x) : q \in shorter, x \in S}

\* State after NewCrawlManager, with the given target rows, scripts, client
\* budget and environment.
InitWith(ids, scripts, servingAtStart, environment) ==
    /\ proc = IF servingAtStart THEN "serving" ELSE "boot"
    /\ script = scripts
    /\ lpc = [c \in Callers |-> "idle"]
    /\ isRunning = FALSE
    /\ queue = << >>
    /\ closed = FALSE
    /\ wpc = [w \in Workers |-> "none"]
    /\ wjob = [w \in Workers |-> Nil]
    /\ wdata = [w \in Workers |-> Nil]
    /\ tx = [w \in Workers |-> EmptyTx]
    /\ wlog = [w \in Workers |-> NoLog]
    /\ db = [urls |-> [id \in ids |-> NewURLRow],
             crawl_results |-> [id \in ids |-> << >>],
             found_links |-> [id \in ids |-> << >>]]
    /\ hpc = [r \in Handlers |-> "idle"]
    /\ hurls = [r \in Handlers |-> << >>]
    /\ hres = [r \in Handlers |-> "none"]
    /\ hlate = [r \in Handlers |-> FALSE]
    /\ budget = environment.submissions
    /\ env = environment
    /\ sawRunning = [id \in ids |-> FALSE]
    /\ crawlLog = [id \in ids |-> << >>]
    /\ everDequeued = FALSE
    /\ accepted = << >>
    /\ started = << >>

\* clients: the request goroutines that are served at the same time;
\* submissions: the number of QueueURL sends the clients make in all.
FullEnv ==
    [docs |-> Docs, fetchErrors |-> FetchErrors, dbFaults |-> TRUE,
     clients |-> Handlers, submissions |-> MaxRequests,
     logJobs |-> FALSE]

CalmEnv ==
    [docs |-> {DocA}, fetchErrors |-> {}, dbFaults |-> FALSE,
     clients |-> Handlers, submissions |-> MaxRequests,
     logJobs |-> FALSE]

OverfillEnv ==
    [docs |-> {}, fetchErrors |-> {"Request timed out"}, dbFaults |-> FALSE,
     clients |-> {1}, submissions |-> queueSize + CapExtra,
     logJobs |-> FALSE]

\* Every fetch ends, with a page or with an error; the database works.
LiveEnv ==
    [docs |-> {DocA}, fetchErrors |-> {"Request timed out"}, dbFaults |-> FALSE,
     clients |-> Handlers, submissions |-> MaxRequests,
     logJobs |-> FALSE]

\* LiveEnv with the job logs kept.
LoggedEnv == [LiveEnv EXCEPT !.logJobs = TRUE]

\* The content and the base URL of a page: the words of its DOCTYPE, its
\* nodes in document order, whether html.Parse fails on it.
NoDoctype == << >>
ExampleBase == <<"https:", "//", "example.com">>
EmptyContent == [doctype |-> NoDoctype, nodes |-> << >>, broken |-> FALSE]

\* What a web server answers to the crawler: the redirects before its final
\* response, the error of the transport if the final request fails, the
\* status line, the Content-Type header, the length of the body and the
\* number of bytes after which reading the body fails (Nil: it does not).
Web(hops, transport, statusCode, contentType, length, failAfter) ==
    [hops |-> hops, transport |-> transport, StatusCode |-> statusCode,
     ContentType |-> contentType, length |-> length, failAfter |-> failAfter]

NoSite == [rawURL |-> ExampleBase, web |-> Web(0, Nil, 200, << >>, 0, Nil)]

\* The pipeline before a URL is handed to the fetcher.
NoFetch == site = NoSite /\ fetched = Nil

\* The pipeline before a page is handed to the parser.
NoParse ==
    /\ page = [htmlContent |-> EmptyContent, baseURL |-> ExampleBase]
    /\ parsed = Nil
    /\ NoFetch

\* main(): Start, router.Run, and on a signal Stop and os.Exit.
MainScript == <<"Start", "Serve", "Stop", "Exit">>

Init ==
    /\ InitWith(Targets,
                [c \in Callers |-> IF c = 1 THEN MainScript ELSE << >>],
                FALSE, FullEnv)
    /\ NoParse

\* The program as main wires it, every fetch ending and the database working.
InitLive ==
    /\ InitWith(Targets,
                [c \in Callers |-> IF c = 1 THEN MainScript ELSE << >>],
                FALSE, LiveEnv)
    /\ NoParse

\* LiveEnv with the other page and a single client.
StopEnv == [LiveEnv EXCEPT !.docs = {DocB}, !.clients = {1}]

\* The program as main wires it, up to and after its shutdown signal, with
\* one target whose jobs fill the queue.
InitStop ==
    /\ InitWith({1},
                [c \in Callers |-> IF c = 1 THEN MainScript ELSE << >>],
                FALSE, StopEnv)
    /\ NoParse

\* The program started and serving, with no shutdown signal to come.
InitNoStop ==
    /\ InitWith(Targets,
                [c \in Callers |-> IF c = 1 THEN <<"Start", "Serve">> ELSE << >>],
                FALSE, LoggedEnv)
    /\ NoParse

\* The program as main wires it, with one target more, so that jobs of
\* different targets wait in the queue, and with the job logs kept.
JobTargets == 1..(NumTargets + 1)

InitJobs ==
    /\ InitWith(JobTargets,
                [c \in Callers |-> IF c = 1 THEN MainScript ELSE << >>],
                FALSE, LoggedEnv)
    /\ NoParse

\* The manager under arbitrary callers of Start and Stop.
InitAPI ==
    /\ \E scripts \in [Callers -> SeqsUpTo({"Start", "Stop"}, MaxScript)] :
           InitWith({1}, scripts, TRUE, CalmEnv)
    /\ NoParse

\* The manager started once and clients that can overfill the queue.
InitCap ==
    /\ InitWith({1},
                [c \in Callers |-> IF c = 1 THEN <<"Start", "Serve">> ELSE << >>],
                FALSE, OverfillEnv)
    /\ NoParse

Alive == proc # "exited"

DBOutcomes == IF env.dbFaults THEN {TRUE, FALSE} ELSE {TRUE}

\* The job logs are kept in the runs whose environment asks for them.
Logged(log, urlID) == IF env.logJobs THEN Append(log, urlID) ELSE log

SawRunningAfter(newDB) ==
    [id \in DOMAIN sawRunning |->
        IF newDB.urls[id].status = StatusRunning THEN TRUE
        ELSE IF newDB.urls[id].status = StatusQueued
                /\ db.urls[id].status # StatusQueued THEN FALSE
        ELSE sawRunning[id]]

\* ------------------------------------------------- CrawlManager.Start/Stop
NextCall(c) == IF script[c] = << >> THEN "none" ELSE Head(script[c])

FreeWorkers == {w \in Workers : wpc[w] = "none"}

FreeSlot == CHOOSE w \in FreeWorkers : \A v \in FreeWorkers : w <= v

\* Start, `if cm.isRunning { return }`.
StartCheck(c) ==
    /\ Alive /\ lpc[c] = "idle" /\ NextCall(c) = "Start"
    /\ IF isRunning
       THEN /\ script' = [script EXCEPT ![c] = Tail(@)]
            /\ lpc' = lpc
       ELSE /\ FreeWorkers # {}
            /\ lpc' = [lpc EXCEPT ![c] = "start_set"]
            /\ script' = script
    /\ UNCHANGED <<proc, mgrVars, workerVars, db, handlerVars, budget, env, jobVars,
                   histVars,
                   parseVars>>

\* Start, `cm.isRunning = true; go cm.processQueue()`.
StartSet(c) ==
    /\ Alive /\ lpc[c] = "start_set" /\ FreeWorkers # {}
    /\ isRunning' = TRUE
    /\ wpc' = [wpc EXCEPT ![FreeSlot] = "recv"]
    /\ lpc' = [lpc EXCEPT ![c] = "idle"]
    /\ script' = [script EXCEPT ![c] = Tail(@)]
    /\ UNCHANGED <<proc, queue, closed, wjob, wdata, tx, wlog, db,
                   handlerVars, budget, env, jobVars, histVars,
                   parseVars>>

\* Stop, `if !cm.isRunning { return }`.
StopCheck(c) ==
    /\ Alive /\ lpc[c] = "idle" /\ NextCall(c) = "Stop"
    /\ IF ~isRunning
       THEN /\ script' = [script EXCEPT ![c] = Tail(@)]
            /\ lpc' = lpc
       ELSE /\ lpc' = [lpc EXCEPT ![c] = "stop_close"]
            /\ script' = script
    /\ UNCHANGED <<proc, mgrVars, workerVars, db, handlerVars, budget, env, jobVars,
                   histVars,
                   parseVars>>

\* Stop, `cm.isRunning = false; close(cm.queue)`.  Closing a closed channel
\* panics in the caller's goroutine, which ends the process.
StopClose(c) ==
    /\ Alive /\ lpc[c] = "stop_close"
    /\ isRunning' = FALSE
    /\ closed' = TRUE
    /\ proc' = IF closed THEN "exited" ELSE proc
    /\ lpc' = [lpc EXCEPT ![c] = "idle"]
    /\ script' = [script EXCEPT ![c] = Tail(@)]
    /\ UNCHANGED <<queue, workerVars, db, handlerVars, budget, env, jobVars, histVars,
                   parseVars>>

\* main: router.Run starts to serve requests.
Serve(c) ==
    /\ Alive /\ lpc[c] = "idle" /\ NextCall(c) = "Serve"
    /\ proc' = "serving"
    /\ script' = [script EXCEPT ![c] = Tail(@)]
    /\ UNCHANGED <<lpc, mgrVars, workerVars, db, handlerVars, budget, env, jobVars,
                   histVars,
                   parseVars>>

\* setupGracefulShutdown: database.Close and os.Exit after Stop.
Exit(c) ==
    /\ Alive /\ lpc[c] = "idle" /\ NextCall(c) = "Exit"
    /\ proc' = "exited"
    /\ script' = [script EXCEPT ![c] = Tail(@)]
    /\ UNCHANGED <<lpc, mgrVars, workerVars, db, handlerVars, budget, env, jobVars,
                   histVars,
                   parseVars>>

\* ------------------------------------------------------ the worker loop
Received_Last(q) == q[Len(q)]

\* `for job := range cm.queue`: the job received is the oldest in the channel
Received(q) == Head(q)

Dequeued_Keep(q) == q

\* and it leaves the channel.
Dequeued(q) == Tail(q)

Receive_BlocksOnClosed(w) ==
    /\ Alive /\ wpc[w] = "recv"
    /\ IF queue # << >>
       THEN /\ queue' = Dequeued(queue)
            /\ everDequeued' = TRUE
            /\ IF ~isRunning
               THEN /\ wpc' = [wpc EXCEPT ![w] = "none"]
                    /\ wjob' = wjob
                    /\ started' = started
               ELSE /\ wpc' = [wpc EXCEPT ![w] = "run"]
                    /\ wjob' = [wjob EXCEPT ![w] = Some(Received(queue))]
                    /\ started' = Logged(started, Received(queue).URLID)
       ELSE /\ FALSE
            /\ wpc' = [wpc EXCEPT ![w] = "none"]
            /\ UNCHANGED <<queue, wjob, everDequeued, started>>
    /\ UNCHANGED <<lifeVars, isRunning, closed, wdata, tx, wlog, db,
                   handlerVars, budget, env, sawRunning, crawlLog, accepted,
                   parseVars>>

\* processQueue, `for job := range cm.queue` and the isRunning test after it.
Receive(w) ==
    /\ Alive /\ wpc[w] = "recv"
    /\ IF queue # << >>
       THEN /\ queue' = Dequeued(queue)
            /\ everDequeued' = TRUE
            /\ IF ~isRunning
               THEN /\ wpc' = [wpc EXCEPT ![w] = "none"]
                    /\ wjob' = wjob
                    /\ started' = started
               ELSE /\ wpc' = [wpc EXCEPT ![w] = "run"]
                    /\ wjob' = [wjob EXCEPT ![w] = Some(Received(queue))]
                    /\ started' = Logged(started, Received(queue).URLID)
       ELSE /\ closed
            /\ wpc' = [wpc EXCEPT ![w] = "none"]
            /\ UNCHANGED <<queue, wjob, everDequeued, started>>
    /\ UNCHANGED <<lifeVars, isRunning, closed, wdata, tx, wlog, db,
                   handlerVars, budget, env, sawRunning, crawlLog, accepted,
                   parseVars>>

\* End of processSingleJob on a failure: roll back, write status error when
\* the code does so (the write itself can fail), and go to the sleep.
handleCrawlFailure_DropsResults(store, urlID, message) ==
    DeleteWhereURLID("db",
                     updateURLStatus(store, urlID, StatusError, Some(message)),
                     "crawl_results", urlID)

\* handleCrawlFailure: the one statement it runs, the write of status error
\* with err.Error() as the message.
handleCrawlFailure(store, urlID, message) ==
    updateURLStatus(store, urlID, StatusError, Some(message))

EndFailed_SkipsSleep(w, kind, message, writesError) ==
    \E ok \in DBOutcomes :
        LET urlID == wjob[w][1].URLID
            written == writesError /\ ok
            errorWrite == IF ~writesError THEN "none"
                          ELSE IF ok THEN "done" ELSE "failed"
            store == Rollback([db |-> db, tx |-> tx[w]])
        IN  /\ db' = IF ~written THEN db
                     ELSE IF kind = "fetch_failed"
                     THEN handleCrawlFailure(store, urlID, message).db
                     ELSE updateURLStatus(store, urlID, StatusError,
                                          Some(message)).db
            /\ tx' = [tx EXCEPT ![w] = EmptyTx]
            /\ wpc' = [wpc EXCEPT ![w] = "recv"]
            /\ wlog' = [wlog EXCEPT ![w] = [outcome |-> kind,
                                            msg |-> Some(message),
                                            errorWrite |-> errorWrite]]
            /\ sawRunning' = SawRunningAfter(db')

EndFailed(w, kind, message, writesError) ==
    \E ok \in DBOutcomes :
        LET urlID == wjob[w][1].URLID
            written == writesError /\ ok
            errorWrite == IF ~writesError THEN "none"
                          ELSE IF ok THEN "done" ELSE "failed"
            store == Rollback([db |-> db, tx |-> tx[w]])
        IN  /\ db' = IF ~written THEN db
                     ELSE IF kind = "fetch_failed"
                     THEN handleCrawlFailure(store, urlID, message).db
                     ELSE updateURLStatus(store, urlID, StatusError,
                                          Some(message)).db
            /\ tx' = [tx EXCEPT ![w] = EmptyTx]
            /\ wpc' = [wpc EXCEPT ![w] = "sleep"]
            /\ wlog' = [wlog EXCEPT ![w] = [outcome |-> kind,
                                            msg |-> Some(message),
                                            errorWrite |-> errorWrite]]
            /\ sawRunning' = SawRunningAfter(db')

\* processSingleJob, updateURLStatus(running).
SetRunning(w) ==
    /\ Alive /\ wpc[w] = "run"
    /\ \E ok \in DBOutcomes :
         IF ok
         THEN /\ db' = updateURLStatus([db |-> db, tx |-> EmptyTx],
                                       wjob[w][1].URLID, StatusRunning, Nil).db
              /\ wpc' = [wpc EXCEPT ![w] = "fetch"]
              /\ wlog' = wlog
              /\ sawRunning' = SawRunningAfter(db')
         ELSE /\ wpc' = [wpc EXCEPT ![w] = "sleep"]
              /\ wlog' = [wlog EXCEPT ![w] = [outcome |-> "run_update_failed",
                                              msg |-> Some("update failed"),
                                              errorWrite |-> "none"]]
              /\ UNCHANGED <<db, sawRunning>>
    /\ UNCHANGED <<lifeVars, mgrVars, wjob, wdata, tx, handlerVars, budget,
                   env, jobVars, crawlLog, everDequeued,
                   parseVars>>

\* performCrawl: FetchURL and Parse; on an error handleCrawlFailure, else
\* handleCrawlSuccess begins its transaction.
PerformCrawl(w) ==
    /\ Alive /\ wpc[w] = "fetch"
    /\ \/ /\ \E m \in env.fetchErrors : EndFailed(w, "fetch_failed", m, TRUE)
          /\ wdata' = wdata
       \/ /\ \E d \in env.docs : wdata' = [wdata EXCEPT ![w] = Some(d)]
          /\ wpc' = [wpc EXCEPT ![w] = "save_results"]
          /\ UNCHANGED <<tx, wlog, db, sawRunning>>
    /\ UNCHANGED <<lifeVars, mgrVars, wjob, handlerVars, budget, env, jobVars,
                   crawlLog, everDequeued,
                   parseVars>>

\* handleCrawlSuccess, saveCrawlResults.
SaveResults(w) ==
    /\ Alive /\ wpc[w] = "save_results"
    /\ \E ok \in DBOutcomes :
         IF ok
         THEN LET store == SuccessSaveResults([db |-> db, tx |-> tx[w]],
                                              wjob[w][1].URLID, wdata[w][1])
              IN  /\ db' = store.db
                  /\ tx' = [tx EXCEPT ![w] = store.tx]
                  /\ wpc' = [wpc EXCEPT ![w] = "save_links"]
                  /\ wlog' = wlog
                  /\ sawRunning' = SawRunningAfter(db')
         ELSE EndFailed(w, "save_results_failed",
                        "failed to create crawl result", TRUE)
    /\ UNCHANGED <<lifeVars, mgrVars, wjob, wdata, handlerVars, budget, env, jobVars,
                   crawlLog, everDequeued,
                   parseVars>>

\* handleCrawlSuccess, saveFoundLinks.
SaveLinks(w) ==
    /\ Alive /\ wpc[w] = "save_links"
    /\ \E ok \in DBOutcomes :
         IF ok
         THEN LET store == SuccessSaveLinks([db |-> db, tx |-> tx[w]],
                                            wjob[w][1].URLID, wdata[w][1])
              IN  /\ db' = store.db
                  /\ tx' = [tx EXCEPT ![w] = store.tx]
                  /\ wpc' = [wpc EXCEPT ![w] = "status_tx"]
                  /\ wlog' = wlog
                  /\ sawRunning' = SawRunningAfter(db')
         ELSE EndFailed(w, "save_links_failed",
                        "failed to create found links batch", TRUE)
    /\ UNCHANGED <<lifeVars, mgrVars, wjob, wdata, handlerVars, budget, env, jobVars,
                   crawlLog, everDequeued,
                   parseVars>>

\* handleCrawlSuccess, updateURLStatusTx(completed): on a failure the code
\* rolls back and returns, it writes no status.
MarkCompleted(w) ==
    /\ Alive /\ wpc[w] = "status_tx"
    /\ \E ok \in DBOutcomes :
         IF ok
         THEN LET store == SuccessMarkCompleted([db |-> db, tx |-> tx[w]],
                                                wjob[w][1].URLID)
              IN  /\ db' = store.db
                  /\ tx' = [tx EXCEPT ![w] = store.tx]
                  /\ wpc' = [wpc EXCEPT ![w] = "commit"]
                  /\ wlog' = wlog
                  /\ sawRunning' = SawRunningAfter(db')
         ELSE EndFailed(w, "status_update_failed", "update failed", FALSE)
    /\ UNCHANGED <<lifeVars, mgrVars, wjob, wdata, handlerVars, budget, env, jobVars,
                   crawlLog, everDequeued,
                   parseVars>>

LastTwo(s) == IF Len(s) > 2 THEN SubSeq(s, Len(s) - 1, Len(s)) ELSE s

\* handleCrawlSuccess, tx.Commit.
CommitTx(w) ==
    /\ Alive /\ wpc[w] = "commit"
    /\ \E ok \in DBOutcomes :
         IF ok
         THEN /\ db' = Commit([db |-> db, tx |-> tx[w]]).db
              /\ tx' = [tx EXCEPT ![w] = EmptyTx]
              /\ wpc' = [wpc EXCEPT ![w] = "sleep"]
              /\ wlog' = [wlog EXCEPT ![w] = [outcome |-> "ok", msg |-> Nil,
                                              errorWrite |-> "none"]]
              /\ sawRunning' = SawRunningAfter(db')
              /\ crawlLog' = [crawlLog EXCEPT ![wjob[w][1].URLID] =
                                 LastTwo(Append(@, wdata[w][1]))]
         ELSE /\ EndFailed(w, "commit_failed", "commit failed", TRUE)
              /\ crawlLog' = crawlLog
    /\ UNCHANGED <<lifeVars, mgrVars, wjob, wdata, handlerVars, budget, env, jobVars,
                   everDequeued,
                   parseVars>>

\* processQueue, time.Sleep(RateLimit), then back to the receive.
Sleep(w) ==
    /\ Alive /\ wpc[w] = "sleep"
    /\ wpc' = [wpc EXCEPT ![w] = "recv"]
    /\ wjob' = [wjob EXCEPT ![w] = Nil]
    /\ wdata' = [wdata EXCEPT ![w] = Nil]
    /\ wlog' = [wlog EXCEPT ![w] = NoLog]
    /\ UNCHANGED <<lifeVars, mgrVars, tx, db, handlerVars, budget, env, jobVars,
                   histVars,
                   parseVars>>

\* ------------------------------------------------------------- handlers
RECURSIVE SortedIDs(_)
SortedIDs(S) ==
    IF S = {} THEN << >>
    ELSE LET m == CHOOSE x \in S : \A y \in S : x <= y
         IN  <<m>> \o SortedIDs(S \ {m})

\* The rows a handler has read: identifier and the status at that moment.
URLRows(ids) ==
    LET sorted == SortedIDs(ids)
    IN  [i \in 1..Len(sorted) |->
            [ID |-> sorted[i], Status |-> db.urls[sorted[i]].status]]

CrawlAllowed_Always(status) == TRUE

\* The handlers' test `url.Status == models.StatusRunning`.
CrawlAllowed(status) == status # StatusRunning

NotRunningRow(row) == CrawlAllowed(row.Status)

ChanHasRoom_OneMore(q) == Len(q) <= queueSize

\* A buffered channel accepts a send while it holds fewer than cap elements.
ChanHasRoom(q) == Len(q) < queueSize

\* Where a handler continues after the URL in hand: StartCrawl answers,
\* StartBulkCrawl goes on with the next URL.
AfterURL(r) ==
    IF Len(hurls[r]) <= 1
    THEN /\ hpc' = [hpc EXCEPT ![r] = "respond"]
         /\ hurls' = [hurls EXCEPT ![r] = << >>]
    ELSE /\ hpc' = [hpc EXCEPT ![r] = "check"]
         /\ hurls' = [hurls EXCEPT ![r] = Tail(@)]

\* StartCrawl: read the row, answer 409 when it is running.
StartCrawl(r, id) ==
    /\ proc = "serving" /\ r \in env.clients /\ hpc[r] = "idle" /\ budget >= 1
    /\ id \in URLIDs
    /\ hres' = [hres EXCEPT ![r] = "none"]
    /\ IF ~CrawlAllowed(db.urls[id].status)
       THEN /\ hpc' = [hpc EXCEPT ![r] = "respond"]
            /\ hurls' = hurls
            /\ budget' = budget
       ELSE /\ hpc' = [hpc EXCEPT ![r] = "check"]
            /\ hurls' = [hurls EXCEPT ![r] = URLRows({id})]
            /\ budget' = budget - 1
    /\ UNCHANGED <<lifeVars, mgrVars, workerVars, db, hlate, env, jobVars, histVars,
                   parseVars>>

\* StartBulkCrawl: read the rows, skip the ones that are running.
StartBulkCrawl(r, ids) ==
    /\ proc = "serving" /\ r \in env.clients /\ hpc[r] = "idle"
    /\ ids # {} /\ ids \subseteq URLIDs
    /\ Cardinality(ids) <= maxBulkSize
    /\ budget >= Cardinality(ids)
    /\ hres' = [hres EXCEPT ![r] = "none"]
    /\ LET rows == SelectSeq(URLRows(ids), NotRunningRow)
       IN  /\ hurls' = [hurls EXCEPT ![r] = rows]
           /\ budget' = budget - Len(rows)
           /\ hpc' = [hpc EXCEPT ![r] = IF rows = << >> THEN "respond"
                                        ELSE "check"]
    /\ UNCHANGED <<lifeVars, mgrVars, workerVars, db, hlate, env, jobVars, histVars,
                   parseVars>>

\* QueueURL, `if !cm.isRunning { return error }`.
QueueURLCheck(r) ==
    /\ Alive /\ hpc[r] = "check"
    /\ hlate' = [hlate EXCEPT ![r] = closed]
    /\ IF ~isRunning
       THEN /\ hres' = [hres EXCEPT ![r] = "not_running"]
            /\ AfterURL(r)
            /\ budget' = budget + 1
       ELSE /\ hres' = [hres EXCEPT ![r] = "none"]
            /\ hpc' = [hpc EXCEPT ![r] = "send"]
            /\ hurls' = hurls
            /\ budget' = budget
    /\ UNCHANGED <<lifeVars, mgrVars, workerVars, db, env, jobVars, histVars,
                   parseVars>>

QueueURLSend_IgnoresFull(r) ==
    /\ Alive /\ hpc[r] = "send"
    /\ IF closed
       THEN /\ hres' = [hres EXCEPT ![r] = "panic"]
            /\ hpc' = [hpc EXCEPT ![r] = "respond"]
            /\ hurls' = [hurls EXCEPT ![r] = << >>]
            /\ queue' = queue
            /\ accepted' = accepted
            /\ budget' = budget + (Len(hurls[r]) - 1)
       ELSE IF ChanHasRoom(queue)
       THEN /\ queue' = Append(queue, CrawlJob(Head(hurls[r]).ID))
            /\ accepted' = Logged(accepted, Head(hurls[r]).ID)
            /\ hres' = [hres EXCEPT ![r] = "ok"]
            /\ hpc' = [hpc EXCEPT ![r] = "update"]
            /\ hurls' = hurls
            /\ budget' = budget
       ELSE /\ hres' = [hres EXCEPT ![r] = "full"]
            /\ queue' = queue
            /\ accepted' = accepted
            /\ hpc' = [hpc EXCEPT ![r] = "update"]
            /\ hurls' = hurls
            /\ budget' = budget
    /\ UNCHANGED <<lifeVars, isRunning, closed, workerVars, db, hlate,
                   env, histVars, started,
                   parseVars>>

\* QueueURL, the select with the send and the default case.  A send on a
\* closed channel panics; gin's Recovery middleware ends the request.
QueueURLSend(r) ==
    /\ Alive /\ hpc[r] = "send"
    /\ IF closed
       THEN /\ hres' = [hres EXCEPT ![r] = "panic"]
            /\ hpc' = [hpc EXCEPT ![r] = "respond"]
            /\ hurls' = [hurls EXCEPT ![r] = << >>]
            /\ queue' = queue
            /\ accepted' = accepted
            /\ budget' = budget + (Len(hurls[r]) - 1)
       ELSE IF ChanHasRoom(queue)
       THEN /\ queue' = Append(queue, CrawlJob(Head(hurls[r]).ID))
            /\ accepted' = Logged(accepted, Head(hurls[r]).ID)
            /\ hres' = [hres EXCEPT ![r] = "ok"]
            /\ hpc' = [hpc EXCEPT ![r] = "update"]
            /\ hurls' = hurls
            /\ budget' = budget
       ELSE /\ hres' = [hres EXCEPT ![r] = "full"]
            /\ queue' = queue
            /\ accepted' = accepted
            /\ AfterURL(r)
            /\ budget' = budget
    /\ UNCHANGED <<lifeVars, isRunning, closed, workerVars, db, hlate,
                   env, histVars, started,
                   parseVars>>

\* The handlers' update to queued of a row they read with another status;
\* the result of the update is not looked at.
UpdateQueued(r) ==
    /\ Alive /\ hpc[r] = "update"
    /\ IF Head(hurls[r]).Status # StatusQueued
       THEN \E ok \in DBOutcomes :
                db' = IF ok
                      THEN MarkQueued([db |-> db, tx |-> EmptyTx],
                                      Head(hurls[r]).ID).db
                      ELSE db
       ELSE db' = db
    /\ sawRunning' = SawRunningAfter(db')
    /\ AfterURL(r)
    /\ UNCHANGED <<lifeVars, mgrVars, workerVars, hres, hlate, budget,
                   env, jobVars, crawlLog, everDequeued,
                   parseVars>>

\* The handler writes its response and the request goroutine ends.
Respond(r) ==
    /\ Alive /\ hpc[r] = "respond"
    /\ hpc' = [hpc EXCEPT ![r] = "idle"]
    /\ hres' = [hres EXCEPT ![r] = "none"]
    /\ hlate' = [hlate EXCEPT ![r] = FALSE]
    /\ hurls' = [hurls EXCEPT ![r] = << >>]
    /\ UNCHANGED <<lifeVars, mgrVars, workerVars, db, budget, env, jobVars,
                   histVars,
                   parseVars>>

\* QueueURL calls that have executed their select so far: the sends the
\* clients make in all, less the ones not yet started or still to come in a
\* request under way.
SendsToCome(r) ==
    IF hpc[r] \in {"check", "send"} THEN Len(hurls[r])
    ELSE IF hpc[r] = "update" THEN Len(hurls[r]) - 1
    ELSE 0

RECURSIVE SendsToComeOf(_)
SendsToComeOf(S) ==
    IF S = {} THEN 0
    ELSE LET r == CHOOSE x \in S : TRUE
         IN  SendsToCome(r) + SendsToComeOf(S \ {r})

nSends == env.submissions - budget - SendsToComeOf(Handlers)

\* ------------------------------------------------------- specifications
Next ==
    \/ \E c \in Callers : StartCheck(c)
    \/ \E c \in Callers : StartSet(c)
    \/ \E c \in Callers : StopCheck(c)
    \/ \E c \in Callers : StopClose(c)
    \/ \E c \in Callers : Serve(c)
    \/ \E c \in Callers : Exit(c)
    \/ \E w \in Workers : Receive(w)
    \/ \E w \in Workers : SetRunning(w)
    \/ \E w \in Workers : PerformCrawl(w)
    \/ \E w \in Workers : SaveResults(w)
    \/ \E w \in Workers : SaveLinks(w)
    \/ \E w \in Workers : MarkCompleted(w)
    \/ \E w \in Workers : CommitTx(w)
    \/ \E w \in Workers : Sleep(w)
    \/ \E r \in Handlers, id \in URLIDs : StartCrawl(r, id)
    \/ \E r \in Handlers, ids \in SUBSET URLIDs : StartBulkCrawl(r, ids)
    \/ \E r \in Handlers : QueueURLCheck(r)
    \/ \E r \in Handlers : QueueURLSend(r)
    \/ \E r \in Handlers : UpdateQueued(r)
    \/ \E r \in Handlers : Respond(r)

Spec == Init /\ [][Next]_vars

\* From InitAPI the requests are served from the start and no script calls
\* Serve or Exit.
NextAPI ==
    \/ \E c \in Callers : StartCheck(c)
    \/ \E c \in Callers : StartSet(c)
    \/ \E c \in Callers : StopCheck(c)
    \/ \E c \in Callers : StopClose(c)
    \/ \E w \in Workers : Receive(w)
    \/ \E w \in Workers : SetRunning(w)
    \/ \E w \in Workers : PerformCrawl(w)
    \/ \E w \in Workers : SaveResults(w)
    \/ \E w \in Workers : SaveLinks(w)
    \/ \E w \in Workers : MarkCompleted(w)
    \/ \E w \in Workers : CommitTx(w)
    \/ \E w \in Workers : Sleep(w)
    \/ \E r \in Handlers, id \in URLIDs : StartCrawl(r, id)
    \/ \E r \in Handlers, ids \in SUBSET URLIDs : StartBulkCrawl(r, ids)
    \/ \E r \in Handlers : QueueURLCheck(r)
    \/ \E r \in Handlers : QueueURLSend(r)
    \/ \E r \in Handlers : UpdateQueued(r)
    \/ \E r \in Handlers : Respond(r)

SpecAPI == InitAPI /\ [][NextAPI]_vars

\* From InitCap no script calls Stop or Exit and every fetch fails, so the
\* steps of Next left out here are never enabled.
NextCap ==
    \/ \E c \in Callers : StartCheck(c)
    \/ \E c \in Callers : StartSet(c)
    \/ \E c \in Callers : Serve(c)
    \/ \E w \in Workers : Receive(w)
    \/ \E w \in Workers : SetRunning(w)
    \/ \E w \in Workers : PerformCrawl(w)
    \/ \E w \in Workers : Sleep(w)
    \/ \E r \in Handlers, id \in URLIDs : StartCrawl(r, id)
    \/ \E r \in Handlers, ids \in SUBSET URLIDs : StartBulkCrawl(r, ids)
    \/ \E r \in Handlers : QueueURLCheck(r)
    \/ \E r \in Handlers : QueueURLSend(r)
    \/ \E r \in Handlers : UpdateQueued(r)
    \/ \E r \in Handlers : Respond(r)

SpecCap == InitCap /\ [][NextCap]_vars

\* The manager started once and stopped at some moment, and clients that can
\* overfill the queue; every fetch fails.
InitDeny ==
    /\ InitWith({1},
                [c \in Callers |-> IF c = 1 THEN <<"Start", "Serve", "Stop">>
                                   ELSE << >>],
                FALSE, OverfillEnv)
    /\ NoParse

NextDeny ==
    \/ \E c \in Callers : StartCheck(c)
    \/ \E c \in Callers : StartSet(c)
    \/ \E c \in Callers : Serve(c)
    \/ \E c \in Callers : StopCheck(c)
    \/ \E c \in Callers : StopClose(c)
    \/ \E w \in Workers : Receive(w)
    \/ \E w \in Workers : SetRunning(w)
    \/ \E w \in Workers : PerformCrawl(w)
    \/ \E w \in Workers : Sleep(w)
    \/ \E r \in Handlers, id \in URLIDs : StartCrawl(r, id)
    \/ \E r \in Handlers, ids \in SUBSET URLIDs : StartBulkCrawl(r, ids)
    \/ \E r \in Handlers : QueueURLCheck(r)
    \/ \E r \in Handlers : QueueURLSend(r)
    \/ \E r \in Handlers : UpdateQueued(r)
    \/ \E r \in Handlers : Respond(r)

SpecDeny == InitDeny /\ [][NextDeny]_vars

\* The Go scheduler runs every goroutine that can take a step: the worker
\* loop, a request under way, a call of Start or Stop under way.
WorkerNext(w) ==
    \/ Receive(w) \/ SetRunning(w) \/ PerformCrawl(w) \/ SaveResults(w)
    \/ SaveLinks(w) \/ MarkCompleted(w) \/ CommitTx(w) \/ Sleep(w)

HandlerNext(r) ==
    QueueURLCheck(r) \/ QueueURLSend(r) \/ UpdateQueued(r) \/ Respond(r)

Fairness ==
    /\ \A w \in Workers : WF_vars(WorkerNext(w))
    /\ \A r \in Handlers : WF_vars(HandlerNext(r))
    /\ \A c \in Callers : WF_vars(StartSet(c) \/ StopClose(c))

SpecJobs == InitJobs /\ [][Next]_vars

SpecLive == InitLive /\ [][Next]_vars /\ Fairness

\* The program as main wires it, where nothing more is assumed of the
\* scheduler than that a processQueue goroutine that can take a step is run.
WorkerFairness == WF_vars(\E w \in Workers : WorkerNext(w))

SpecStop == InitStop /\ [][Next]_vars /\ WorkerFairness

\* From InitNoStop no script calls Stop or Exit.
NextNoStop ==
    \/ \E c \in Callers : StartCheck(c)
    \/ \E c \in Callers : StartSet(c)
    \/ \E c \in Callers : Serve(c)
    \/ \E w \in Workers : Receive(w)
    \/ \E w \in Workers : SetRunning(w)
    \/ \E w \in Workers : PerformCrawl(w)
    \/ \E w \in Workers : SaveResults(w)
    \/ \E w \in Workers : SaveLinks(w)
    \/ \E w \in Workers : MarkCompleted(w)
    \/ \E w \in Workers : CommitTx(w)
    \/ \E w \in Workers : Sleep(w)
    \/ \E r \in Handlers, id \in URLIDs : StartCrawl(r, id)
    \/ \E r \in Handlers, ids \in SUBSET URLIDs : StartBulkCrawl(r, ids)
    \/ \E r \in Handlers : QueueURLCheck(r)
    \/ \E r \in Handlers : QueueURLSend(r)
    \/ \E r \in Handlers : UpdateQueued(r)
    \/ \E r \in Handlers : Respond(r)

SpecNoStop == InitNoStop /\ [][NextNoStop]_vars /\ Fairness

\* ------------------------------------------------------------ HTMLParser
\* Tag names, attribute keys and values, and the parts of a URL are strings;
\* strings.ToLower on the ones that occur.
ToLower(s) ==
    CASE s = "EXAMPLE.com" -> "example.com"
      [] s = "PASSWORD" -> "password"
      [] s = "Password" -> "password"
      [] s = "<!DOCTYPE" -> "<!doctype"
      [] s = "HTML" -> "html"
      [] s = "HTML 4.01" -> "html 4.01"
      [] s = "XHTML 1.0" -> "xhtml 1.0"
      [] s = "XHTML 1.1" -> "xhtml 1.1"
      [] s = "Strict" -> "strict"
      [] s = "Transitional" -> "transitional"
      [] s = "Frameset" -> "frameset"
      [] s = "TEXT/HTML" -> "text/html"
      [] OTHER -> s

\* html.Node: Type, Data (the tag name of an element, the characters of a
\* text), Attr; parent is the index of the parent node in the tree, which
\* is the sequence of the nodes in document order.
ElementNode(tag, attr) == [Type |-> "element", Data |-> tag, Attr |-> attr]
TextNode(chars) == [Type |-> "text", Data |-> chars, Attr |-> << >>]
Attribute(key, val) == [Key |-> key, Val |-> val]

Placed(node, parent) ==
    [Type |-> node.Type, Data |-> node.Data, Attr |-> node.Attr,
     parent |-> parent]

\* n.FirstChild, then NextSibling until nil.
Children(dom, n) ==
    LET IsChild(i) == dom[i].parent = n
    IN  SelectSeq([i \in 1..Len(dom) |-> i], IsChild)

\* html.Parse: the document node (1), html, head and body (4), and under
\* body the elements and texts of the content in their order.  In the
\* content a parent of 0 is the top level.
htmlParse(htmlContent) ==
    << [Type |-> "document", Data |-> "", Attr |-> << >>, parent |-> 0],
       Placed(ElementNode("html", << >>), 1),
       Placed(ElementNode("head", << >>), 2),
       Placed(ElementNode("body", << >>), 2) >>
    \o [i \in 1..Len(htmlContent.nodes) |->
           Placed(htmlContent.nodes[i],
                  IF htmlContent.nodes[i].parent = 0 THEN 4
                  ELSE htmlContent.nodes[i].parent + 4)]

\* extractTextContent: the text nodes of the subtree, concatenated, trimmed.
RECURSIVE extractText(_, _)
RECURSIVE extractTextOfAll(_, _)
extractText(dom, node) ==
    (IF dom[node].Type = "text" THEN dom[node].Data ELSE << >>)
    \o extractTextOfAll(dom, Children(dom, node))

extractTextOfAll(dom, nodes) ==
    IF nodes = << >> THEN << >>
    ELSE extractText(dom, Head(nodes)) \o extractTextOfAll(dom, Tail(nodes))

extractTextContent(dom, n) == TrimSpace(extractText(dom, n))

\* hasPasswordInput: checkInputs walks the subtree of the form.
IsPasswordInput_AnyInput(node) ==
    node.Type = "element" /\ ToLower(node.Data) = "input"

IsPasswordInput(node) ==
    /\ node.Type = "element" /\ ToLower(node.Data) = "input"
    /\ \E i \in 1..Len(node.Attr) :
           /\ ToLower(node.Attr[i].Key) = "type"
           /\ ToLower(node.Attr[i].Val) = "password"

RECURSIVE hasPasswordInput(_, _)
hasPasswordInput(dom, n) ==
    IF IsPasswordInput(dom[n]) THEN TRUE
    ELSE LET cs == Children(dom, n)
         IN  \E i \in 1..Len(cs) : hasPasswordInput(dom, cs[i])

Increment_Once(m, k) ==
    [x \in (DOMAIN m) \cup {k} |-> IF x = k THEN 1 ELSE m[x]]

\* data.HeadingCounts[k]++
Increment(m, k) ==
    [x \in (DOMAIN m) \cup {k} |-> IF x = k THEN MapGet(m, k) + 1 ELSE m[x]]

NewParsedData(version) ==
    [HTMLVersion |-> version, PageTitle |-> Nil, HeadingCounts |-> << >>,
     InternalLinks |-> << >>, ExternalLinks |-> << >>,
     HasLoginForm |-> FALSE, ParseErrors |-> << >>]

\* ------------------------------------------------------------- net/url
\* A URL string is the sequence of its parts: a scheme with its colon, the
\* "//" of an authority, a host, path segments, a query, a fragment.
\* "c" is a path segment with no slash before it, "%zz" a bad escape.
Parts ==
    [scheme |-> {"https:", "http:", "mailto:", "Mailto:", "javascript:"},
     host |-> {"example.com", "EXAMPLE.com", "other.com", "example.com:8080"},
     rooted |-> {"/a", "/b", "/c"},
     query |-> {"?q"},
     fragment |-> {"#", "#f"},
     bad |-> {"%zz"}]

SchemeName(token) ==
    CASE token = "https:" -> "https"
      [] token = "http:" -> "http"
      [] token \in {"mailto:", "Mailto:"} -> "mailto"
      [] token = "javascript:" -> "javascript"
      [] OTHER -> ""

SchemeToken(name) ==
    CASE name = "https" -> "https:"
      [] name = "http" -> "http:"
      [] name = "mailto" -> "mailto:"
      [] name = "javascript" -> "javascript:"
      [] OTHER -> ""

\* The index of the first part of s that is in S, or Len(s) + 1.
RECURSIVE FirstIn(_, _, _)
FirstIn(s, S, i) ==
    IF i > Len(s) \/ s[i] \in S THEN i ELSE FirstIn(s, S, i + 1)

\* url.Parse: the fragment is cut off first, then the scheme, then the
\* query; what is left is an authority and a path, or an opaque part.
urlParse(rawURL) ==
    LET f == FirstIn(rawURL, Parts.fragment, 1)
        fragment == IF f > Len(rawURL) \/ rawURL[f] = "#" THEN ""
                    ELSE rawURL[f]
        noFrag == SubSeq(rawURL, 1, f - 1)
        hasScheme == noFrag # << >> /\ Head(noFrag) \in Parts.scheme
        scheme == IF hasScheme THEN SchemeName(Head(noFrag)) ELSE ""
        noScheme == IF hasScheme THEN Tail(noFrag) ELSE noFrag
        q == FirstIn(noScheme, Parts.query, 1)
        query == IF q > Len(noScheme) THEN "" ELSE noScheme[q]
        rest == SubSeq(noScheme, 1, q - 1)
        hasAuthority == rest # << >> /\ Head(rest) = "//"
        hasHost == hasAuthority /\ Len(rest) >= 2 /\ rest[2] \in Parts.host
        opaque == scheme # "" /\ rest # << >> /\ Head(rest) \notin Parts.rooted
                  /\ ~hasAuthority
    IN  IF \E i \in 1..Len(rawURL) : rawURL[i] \in Parts.bad
        THEN [Scheme |-> "", Opaque |-> << >>, Host |-> "", Path |-> << >>,
              RawQuery |-> "", Fragment |-> "", err |-> TRUE]
        ELSE [Scheme |-> scheme,
              Opaque |-> IF opaque THEN rest ELSE << >>,
              Host |-> IF hasHost THEN rest[2] ELSE "",
              Path |-> IF opaque THEN << >>
                       ELSE IF hasHost THEN SubSeq(rest, 3, Len(rest))
                       ELSE IF hasAuthority THEN Tail(rest)
                       ELSE rest,
              RawQuery |-> query,
              Fragment |-> fragment,
              err |-> FALSE]

\* URL.String
urlString(u) ==
    (IF u.Scheme # "" THEN <<SchemeToken(u.Scheme)>> ELSE << >>)
    \o (IF u.Opaque # << >> THEN u.Opaque
        ELSE (IF (u.Scheme # "" \/ u.Host # "")
                 /\ (u.Host # "" \/ u.Path # << >>)
              THEN <<"//">> \o (IF u.Host # "" THEN <<u.Host>> ELSE << >>)
              ELSE << >>)
             \o u.Path)
    \o (IF u.RawQuery # "" THEN <<u.RawQuery>> ELSE << >>)
    \o (IF u.Fragment # "" THEN <<u.Fragment>> ELSE << >>)

\* resolvePath: a rooted reference replaces the base path, another one
\* replaces its last segment.
resolvePath(base, ref) ==
    IF ref = << >> THEN base
    ELSE IF Head(ref) \in Parts.rooted THEN ref
    ELSE (IF base = << >> THEN << >> ELSE SubSeq(base, 1, Len(base) - 1))
         \o <<IF Head(ref) = "c" THEN "/c" ELSE Head(ref)>> \o Tail(ref)

\* URL.ResolveReference
ResolveReference(base, ref) ==
    IF ref.Scheme # "" THEN ref
    ELSE IF ref.Host # ""
    THEN [ref EXCEPT !.Scheme = base.Scheme]
    ELSE IF ref.Path = << >> /\ ref.RawQuery = ""
    THEN [base EXCEPT !.Fragment = IF ref.Fragment = "" THEN @
                                   ELSE ref.Fragment]
    ELSE [base EXCEPT !.Path = resolvePath(base.Path, ref.Path),
                      !.RawQuery = ref.RawQuery,
                      !.Fragment = ref.Fragment]

\* resolveURL: "" when the base or the href does not parse.
resolveURL(href, baseURL) ==
    LET base == urlParse(baseURL)
        ref == urlParse(href)
    IN  IF base.err \/ ref.err THEN << >>
        ELSE urlString(ResolveReference(base, ref))

isInternalLink_CaseSensitive(linkURL, baseDomain) ==
    LET parsedURL == urlParse(linkURL)
    IN  ~parsedURL.err /\ parsedURL.Host = baseDomain

\* isInternalLink
isInternalLink(linkURL, baseDomain) ==
    LET parsedURL == urlParse(linkURL)
    IN  ~parsedURL.err /\ ToLower(parsedURL.Host) = baseDomain

\* The value of the first attribute named href, trimmed; "" without one.
hrefOf(node) ==
    LET IsHref(a) == ToLower(a.Key) = "href"
        hrefs == SelectSeq(node.Attr, IsHref)
    IN  IF hrefs = << >> THEN << >> ELSE TrimSpace(Head(hrefs).Val)

\* The hrefs extractLinkInfo passes over.
Skipped(href) ==
    \/ href = << >> \/ href = <<"#">>
    \/ (href # << >> /\ Head(href) \in {"javascript:", "mailto:"})

\* extractLinkInfo: the LinkInfo of an anchor, as an option.
extractLinkInfo(dom, n, baseDomain, baseURL) ==
    LET href == hrefOf(dom[n])
        text == extractTextContent(dom, n)
        linkText == IF text = << >> THEN href ELSE text
        resolvedURL == resolveURL(href, baseURL)
    IN  IF Skipped(href) \/ resolvedURL = << >> THEN Nil
        ELSE Some([URL |-> resolvedURL, Text |-> linkText, IsImage |-> FALSE,
                   IsInternal |-> isInternalLink(resolvedURL, baseDomain)])

\* extractHTMLVersion reads the lower-cased text of the content; of that
\* text the model keeps the words of the DOCTYPE declaration.
Contains(s, word) == \E i \in 1..Len(s) : s[i] = word

extractHTMLVersion(htmlContent) ==
    LET htmlLower == [i \in 1..Len(htmlContent.doctype) |->
                         ToLower(htmlContent.doctype[i])]
        IsDoctype(i) ==
            /\ i + 3 <= Len(htmlLower)
            /\ htmlLower[i] = "<!doctype"
            /\ htmlLower[i + 1] \in WhiteChars
            /\ htmlLower[i + 2] = "html"
            /\ \E j \in (i + 3)..Len(htmlLower) : htmlLower[j] = ">"
        IsHTML5(i) == IsDoctype(i) /\ htmlLower[i + 3] = ">"
        Variant(name) ==
            IF Contains(htmlLower, "strict") THEN <<name, " Strict">>
            ELSE IF Contains(htmlLower, "transitional")
            THEN <<name, " Transitional">>
            ELSE IF Contains(htmlLower, "frameset") THEN <<name, " Frameset">>
            ELSE <<name>>
    IN  IF \E i \in 1..Len(htmlLower) : IsHTML5(i) THEN Some(<<"HTML5">>)
        ELSE IF Contains(htmlLower, "html 4.01") THEN Some(Variant("HTML4.01"))
        ELSE IF Contains(htmlLower, "xhtml 1.0") THEN Some(Variant("XHTML1.0"))
        ELSE IF Contains(htmlLower, "xhtml 1.1") THEN Some(<<"XHTML1.1">>)
        ELSE Nil

\* traverseNode: the switch on the tag of an element.
VisitTitle(dom, n, data) ==
    IF extractTextContent(dom, n) # << >>
    THEN [data EXCEPT !.PageTitle = Some(extractTextContent(dom, n))]
    ELSE data

VisitElement(dom, n, data, baseDomain, baseURL) ==
    LET tag == ToLower(dom[n].Data)
        linkInfo == extractLinkInfo(dom, n, baseDomain, baseURL)
    IN  CASE tag = "title" -> VisitTitle(dom, n, data)
          [] tag \in HeadingKeys ->
                 [data EXCEPT !.HeadingCounts = Increment(@, tag)]
          [] tag = "a" ->
                 IF linkInfo = Nil THEN data
                 ELSE IF linkInfo[1].IsInternal
                 THEN [data EXCEPT !.InternalLinks = Append(@, linkInfo[1])]
                 ELSE [data EXCEPT !.ExternalLinks = Append(@, linkInfo[1])]
          [] tag = "form" ->
                 IF hasPasswordInput(dom, n)
                 THEN [data EXCEPT !.HasLoginForm = TRUE]
                 ELSE data
          [] OTHER -> data

RECURSIVE traverseNode(_, _, _, _, _)
RECURSIVE traverseChildren(_, _, _, _, _)
traverseNode(dom, n, data, baseDomain, baseURL) ==
    traverseChildren(dom, Children(dom, n),
                     IF dom[n].Type = "element"
                     THEN VisitElement(dom, n, data, baseDomain, baseURL)
                     ELSE data,
                     baseDomain, baseURL)

\* The loop over the children: the earlier ones, then the later ones with
\* the data the earlier ones left.  The row is halved and the data of the
\* first half is looked at (its flag is always a boolean) before the second
\* half is walked, so that a long row of children is a shallow evaluation.
traverseChildren(dom, nodes, data, baseDomain, baseURL) ==
    IF nodes = << >> THEN data
    ELSE IF Len(nodes) = 1
    THEN traverseNode(dom, nodes[1], data, baseDomain, baseURL)
    ELSE LET half == Len(nodes) \div 2
             earlier == traverseChildren(dom, SubSeq(nodes, 1, half), data,
                                         baseDomain, baseURL)
         IN  IF earlier.HasLoginForm \in BOOLEAN
             THEN traverseChildren(dom, SubSeq(nodes, half + 1, Len(nodes)),
                                   earlier, baseDomain, baseURL)
             ELSE earlier

\* Parse: the ParsedData as an option, and whether an error is returned.
Parse_FailsOnBrokenHTML(htmlContent, baseURL) ==
    LET baseURLParsed == urlParse(baseURL)
        data == NewParsedData(extractHTMLVersion(htmlContent))
    IN  IF baseURLParsed.err \/ htmlContent.broken
        THEN [data |-> Nil, err |-> TRUE]
        ELSE [data |-> Some(traverseNode(htmlParse(htmlContent), 1,
                                         data, ToLower(baseURLParsed.Host),
                                         baseURL)),
              err |-> FALSE]

Parse(htmlContent, baseURL) ==
    LET baseURLParsed == urlParse(baseURL)
        data == NewParsedData(extractHTMLVersion(htmlContent))
    IN  IF baseURLParsed.err THEN [data |-> Nil, err |-> TRUE]
        ELSE IF htmlContent.broken
        THEN [data |-> Some([data EXCEPT !.ParseErrors =
                                             <<"HTML parse error">>]),
              err |-> FALSE]
        ELSE [data |-> Some(traverseNode(htmlParse(htmlContent), 1,
                                         data, ToLower(baseURLParsed.Host),
                                         baseURL)),
              err |-> FALSE]

\* The call of Parse in performCrawl, on its own.
DoParse ==
    /\ parsed = Nil
    /\ parsed' = Some(Parse(page.htmlContent, page.baseURL))
    /\ UNCHANGED <<lifeVars, mgrVars, workerVars, db, handlerVars, budget, env,
                   histVars, jobVars, page, fetchVars>>

\* ------------------------------------------------- the pages to be parsed
RECURSIVE AncestorsOrSelf(_, _)
AncestorsOrSelf(nodes, i) ==
    IF i = 0 THEN {} ELSE {i} \cup AncestorsOrSelf(nodes, nodes[i].parent)

\* What the tree builder of html.Parse lets stand below p: a text and an
\* input hold nothing, a title holds text only, a heading is closed by the
\* next heading, a form or an anchor by the next form or anchor, and two
\* texts in a row are one text.
CanHold(nodes, p, kind) ==
    /\ p # 0 =>
         /\ nodes[p].Type = "element"
         /\ nodes[p].Data # "input"
         /\ nodes[p].Data = "title" => kind.Type = "text"
         /\ ~(nodes[p].Data \in HeadingKeys /\ kind.Type = "element"
              /\ kind.Data \in HeadingKeys)
    /\ (kind.Type = "element" /\ kind.Data \in {"form", "a"}) =>
           \A q \in AncestorsOrSelf(nodes, p) : nodes[q].Data # kind.Data
    /\ kind.Type = "text" =>
           ~(nodes # << >> /\ nodes[Len(nodes)].Type = "text"
             /\ nodes[Len(nodes)].parent = p)

\* The next node in document order goes below a node that is still open.
OpenAt(nodes, kind) ==
    {p \in {0} \cup (IF nodes = << >> THEN {}
                     ELSE AncestorsOrSelf(nodes, Len(nodes))) :
        CanHold(nodes, p, kind)}

RECURSIVE Contents(_, _)
Contents(kinds, n) ==
    IF n = 0 THEN {<< >>}
    ELSE LET shorter == Contents(kinds, n - 1)
         IN  shorter \cup
             UNION {{Append(nodes, Placed(kind, p)) : p \in OpenAt(nodes, kind)} :
                       nodes \in {f \in shorter : Len(f) = n - 1},
                       kind \in kinds}

Pages(doctypes, kinds, n, brokens, bases) ==
    {[htmlContent |-> [doctype |-> d, nodes |-> f, broken |-> b],
      baseURL |-> u] :
        d \in doctypes, f \in Contents(kinds, n), b \in brokens, u \in bases}

Doctypes ==
    {NoDoctype,
     <<"<!DOCTYPE", " ", "html", ">">>,
     <<"<!DOCTYPE", " ", "HTML", " ", "HTML 4.01", "Strict", ">">>,
     <<"<!DOCTYPE", " ", "html", " ", "XHTML 1.1", ">">>}

BaseURLs ==
    {ExampleBase,
     <<"http:", "//", "EXAMPLE.com", "/a", "/b">>,
     <<"https:", "//", "example.com:8080", "/a">>}

HeadingKinds ==
    {ElementNode(h, << >>) : h \in HeadingKeys}
    \cup {ElementNode("div", << >>), TextNode(<<"A">>)}

TitleKinds ==
    {ElementNode("title", << >>), ElementNode("svg", << >>),
     TextNode(<<"A">>), TextNode(<<" ">>), TextNode(<<" ", "B", " ">>)}

InputTypes == {"password", "PASSWORD", "text"}
FormKinds ==
    {ElementNode("form", << >>), ElementNode("div", << >>),
     ElementNode("input", << >>)}
    \cup {ElementNode("input", <<Attribute("type", t)>>) : t \in InputTypes}

Hrefs ==
    {<< >>, <<"#">>, <<"#f">>, <<"?q">>, <<"/a">>, <<"c">>,
     <<" ", "/b", " ">>,
     <<"https:", "//", "example.com", "/a">>,
     <<"https:", "//", "EXAMPLE.com">>,
     <<"https:", "//", "other.com", "/a">>,
     <<"//", "other.com">>,
     <<"https:", "//", "example.com:8080">>,
     <<"javascript:", "x">>, <<"mailto:", "x">>, <<"Mailto:", "x">>,
     <<"%zz">>}

LinkKinds ==
    {ElementNode("a", <<Attribute("href", h)>>) : h \in Hrefs}
    \cup {ElementNode("a", << >>), TextNode(<<"A">>)}

PageKinds ==
    {ElementNode("title", << >>), ElementNode("h1", << >>),
     ElementNode("a", <<Attribute("href", <<"/a">>)>>),
     ElementNode("a", << >>),
     ElementNode("form", << >>),
     ElementNode("input", <<Attribute("type", "password")>>),
     ElementNode("input", << >>),
     TextNode(<<"A">>)}

\* A call of Parse on one of the given pages, the manager not started.
InitParser(pages) ==
    /\ InitWith(Targets, [c \in Callers |-> << >>], FALSE, CalmEnv)
    /\ page \in pages
    /\ parsed = Nil
    /\ NoFetch

SpecHeadings ==
    InitParser(Pages({NoDoctype}, HeadingKinds, MaxHeadingNodes, {FALSE},
                     {ExampleBase}))
    /\ [][DoParse]_vars

SpecTitles ==
    InitParser(Pages({NoDoctype}, TitleKinds, MaxTitleNodes, {FALSE},
                     {ExampleBase}))
    /\ [][DoParse]_vars

SpecForms ==
    InitParser(Pages({NoDoctype}, FormKinds, MaxFormNodes, {FALSE},
                     {ExampleBase}))
    /\ [][DoParse]_vars

SpecLinks ==
    InitParser(Pages({NoDoctype}, LinkKinds, MaxLinkNodes, {FALSE}, BaseURLs))
    /\ [][DoParse]_vars

\* Any content, html.Parse failing or not, a base URL that parses or not.
SpecParse ==
    InitParser(Pages(Doctypes, PageKinds, MaxPageNodes, BOOLEAN,
                     {ExampleBase, <<"%zz">>}))
    /\ [][DoParse]_vars

\* ------------------------------------------- pages with many links
\* A page of n anchors in a row; anchor i leads to another host when i is r
\* modulo m, and to the page's own host otherwise.
AnchorTo(href) == ElementNode("a", <<Attribute("href", href)>>)

LinkPage(n, m, r) ==
    [htmlContent |->
        [doctype |-> NoDoctype,
         nodes |-> [i \in 1..n |->
                      Placed(IF m > 0 /\ i % m = r
                             THEN AnchorTo(<<"https:", "//", "other.com", "/a">>)
                             ELSE AnchorTo(<<"/a">>), 0)],
         broken |-> FALSE],
     baseURL |-> ExampleBase]

LinkPages ==
    {LinkPage(n, m, r) :
        n \in (maxLinksToSave - 2)..(maxLinksToSave + MaxOverCap),
        m \in 0..MaxPeriod, r \in 0..MaxPeriod}

\* handleCrawlSuccess on the data Parse returned, the database working: the
\* transaction with its three writes, and the commit.
StoreParsed ==
    /\ parsed # Nil /\ ~parsed[1].err
    /\ \E id \in URLIDs :
         /\ db.urls[id].status = StatusQueued
         /\ db' = Commit(SuccessMarkCompleted(
                      SuccessSaveLinks(
                          SuccessSaveResults([db |-> db, tx |-> EmptyTx], id,
                                             parsed[1].data[1]),
                          id, parsed[1].data[1]),
                      id)).db
    /\ UNCHANGED <<lifeVars, mgrVars, workerVars, handlerVars, budget, env,
                   histVars, jobVars, parseVars>>

SpecLinkCap == InitParser(LinkPages) /\ [][DoParse \/ StoreParsed]_vars

\* -------------------------------------------------------- CrawlerService
\* DefaultCrawlerConfig: MaxPageSize is 5 * 1024 * 1024.  The sizes are int64
\* and stay far below 2^63.
MaxPageSize == 5242880
MaxRedirects == 5

\* An error of the transport: whether errors.Is(err, DeadlineExceeded), and
\* the phrases of err.Error().  A message is a sequence of phrases.
TransportError(deadline, text) == [deadline |-> deadline, text |-> text]

\* The client's CheckRedirect; via holds the requests made so far.
CheckRedirect(via) ==
    IF via >= MaxRedirects THEN Some(<<"too many redirects">>) ELSE Nil

\* http.Client.Do: the first request is sent as it is; before each further
\* request, made for the Location of a redirect response, CheckRedirect is
\* asked with the requests made so far, and its error, wrapped in a
\* url.Error, ends the call.  reqs is the number of requests made so far.
RECURSIVE clientDo(_, _)
clientDo(web, reqs) ==
    LET refused == IF reqs > 0 THEN CheckRedirect(reqs) ELSE Nil
    IN  IF refused # Nil
        THEN [resp |-> Nil,
              err |-> Some(TransportError(FALSE, <<"Get">> \o refused[1])),
              sent |-> reqs]
        ELSE IF reqs < web.hops THEN clientDo(web, reqs + 1)
        ELSE IF web.transport # Nil
        THEN [resp |-> Nil,
              err |-> Some(TransportError(web.transport[1].deadline,
                                          <<"Get">> \o web.transport[1].text)),
              sent |-> reqs + 1]
        ELSE [resp |-> Some(web), err |-> Nil, sent |-> reqs + 1]

NewCrawlError(errorType, message, url) ==
    [Type |-> errorType, Message |-> message, URL |-> url]

validateURL(rawURL) ==
    LET parsedURL == urlParse(rawURL)
    IN  IF parsedURL.err THEN Some(<<"parse">>)
        ELSE IF parsedURL.Scheme # "http" /\ parsedURL.Scheme # "https"
        THEN Some(<<"URL must use HTTP or HTTPS protocol">>)
        ELSE IF parsedURL.Host = ""
        THEN Some(<<"URL must have a valid host">>)
        ELSE Nil

classifyNetworkError(url, err) ==
    IF err.deadline
    THEN NewCrawlError("timeout", <<"Request timed out">>, url)
    ELSE IF Contains(err.text, "no such host")
    THEN NewCrawlError("dns_error", <<"DNS lookup failed">>, url)
    ELSE IF Contains(err.text, "connection refused")
    THEN NewCrawlError("connection_error", <<"Connection refused">>, url)
    ELSE IF Contains(err.text, "too many redirects")
    THEN NewCrawlError("redirect_error", <<"Too many redirects">>, url)
    ELSE NewCrawlError("network", <<"Network error occurred">>, url)

isHTMLContent_RejectsEmpty(contentType) ==
    LET lower == [i \in 1..Len(contentType) |-> ToLower(contentType[i])]
    IN  \/ Contains(lower, "text/html")
        \/ Contains(lower, "application/xhtml+xml")

isHTMLContent(contentType) ==
    IF contentType = << >> THEN TRUE
    ELSE LET lower == [i \in 1..Len(contentType) |-> ToLower(contentType[i])]
         IN  \/ Contains(lower, "text/html")
             \/ Contains(lower, "application/xhtml+xml")

readResponseBody_LimitAtMax(resp, url) ==
    LET limit == MaxPageSize
        failed == resp.failAfter # Nil /\ resp.failAfter[1] < limit
        read == IF failed THEN resp.failAfter[1] ELSE Min(resp.length, limit)
    IN  IF failed
        THEN [body |-> Nil, read |-> read,
              err |-> Some(NewCrawlError("read_error",
                               <<"Failed to read response body">>, url))]
        ELSE IF read > MaxPageSize
        THEN [body |-> Nil, read |-> read,
              err |-> Some(NewCrawlError("too_large",
                               <<"Response size exceeds limit of ",
                                 MaxPageSize, " bytes">>, url))]
        ELSE [body |-> Some(read), read |-> read, err |-> Nil]

\* readResponseBody: io.ReadAll of a reader limited to MaxPageSize + 1 bytes.
\* The body is known by its length; what is read of it is a prefix, known by
\* its length too.  An error of the stream is met when it comes before the
\* limit.
readResponseBody(resp, url) ==
    LET limit == MaxPageSize + 1
        failed == resp.failAfter # Nil /\ resp.failAfter[1] < limit
        read == IF failed THEN resp.failAfter[1] ELSE Min(resp.length, limit)
    IN  IF failed
        THEN [body |-> Nil, read |-> read,
              err |-> Some(NewCrawlError("read_error",
                               <<"Failed to read response body">>, url))]
        ELSE IF read > MaxPageSize
        THEN [body |-> Nil, read |-> read,
              err |-> Some(NewCrawlError("too_large",
                               <<"Response size exceeds limit of ",
                                 MaxPageSize, " bytes">>, url))]
        ELSE [body |-> Some(read), read |-> read, err |-> Nil]

\* FetchURL: the response or the error it returns, with the number of
\* requests sent and the number of bytes of the body read on the way.
\* http.NewRequest fails on the URLs url.Parse fails on, which validateURL
\* has refused before.
FetchURL(rawURL, web) ==
    LET Failed(e, sent, read) ==
            [resp |-> Nil, err |-> Some(e), sent |-> sent, read |-> read]
        done == clientDo(web, 0)
        resp == done.resp[1]
        body == readResponseBody(resp, rawURL)
    IN  IF validateURL(rawURL) # Nil
        THEN Failed(NewCrawlError("invalid_url", <<"Invalid URL format">>,
                                  rawURL), 0, 0)
        ELSE IF done.err # Nil
        THEN Failed(classifyNetworkError(rawURL, done.err[1]), done.sent, 0)
        ELSE IF resp.StatusCode >= 400
        THEN Failed(NewCrawlError("http_error",
                        <<"HTTP ", resp.StatusCode, ": ", resp.StatusCode,
                          " reason phrase">>,
                        rawURL), done.sent, 0)
        ELSE IF ~isHTMLContent(resp.ContentType)
        THEN Failed(NewCrawlError("invalid_content",
                        <<"Content-Type '">> \o resp.ContentType
                            \o <<"' is not HTML">>,
                        rawURL), done.sent, 0)
        ELSE IF body.err # Nil
        THEN Failed(body.err[1], done.sent, body.read)
        ELSE [resp |-> Some([HTML |-> body.body[1],
                             StatusCode |-> resp.StatusCode,
                             ContentType |-> resp.ContentType,
                             ResponseSize |-> body.body[1]]),
              err |-> Nil, sent |-> done.sent, read |-> body.read]

\* performCrawl, FetchURL(job.URL).
DoFetch ==
    /\ fetched = Nil
    /\ fetched' = Some(FetchURL(site.rawURL, site.web))
    /\ UNCHANGED <<lifeVars, mgrVars, workerVars, db, handlerVars, budget, env,
                   histVars, jobVars, page, parsed, site>>

\* processSingleJob for a job whose fetch failed: the update to running
\* before the fetch, handleCrawlFailure after it.
CrawlFailed ==
    /\ fetched # Nil /\ fetched[1].err # Nil
    /\ \E id \in URLIDs :
         /\ db.urls[id].status = StatusQueued
         /\ db' = handleCrawlFailure(
                      updateURLStatus([db |-> db, tx |-> EmptyTx], id,
                                      StatusRunning, Nil),
                      id, fetched[1].err[1].Message).db
    /\ UNCHANGED <<lifeVars, mgrVars, workerVars, handlerVars, budget, env,
                   histVars, jobVars, parseVars>>

\* ------------------------------------------------ the URLs to be fetched
Transports ==
    {TransportError(TRUE, <<"context deadline exceeded">>),
     TransportError(FALSE, <<"dial tcp", "lookup", "no such host">>),
     TransportError(FALSE, <<"dial tcp", "connection refused">>),
     TransportError(FALSE, <<"EOF">>)}

StatusCodes == {200, 399, 400, 404, 500}

ContentTypes ==
    {<< >>, <<"text/html">>, <<"TEXT/HTML", ";", "charset=utf-8">>,
     <<"application/xhtml+xml">>, <<"application/json">>, <<"text/plain">>}

Lengths == {0, 1} \cup ((MaxPageSize - 1)..(MaxPageSize + MaxOverSize))

\* The stream of a body of the given length fails after so many bytes.
FailPoints(length) ==
    {Nil} \cup {Some(k) : k \in {0, MaxPageSize, MaxPageSize + 1, length}
                                \cap (0..length)}

Webs ==
    UNION {{Web(h, Nil, c, t, l, f) :
                h \in 0..(MaxRedirects + MaxOverHops), c \in StatusCodes,
                t \in ContentTypes, f \in FailPoints(l)} : l \in Lengths}
    \cup {Web(h, Some(e), 200, << >>, 0, Nil) :
              h \in 0..(MaxRedirects + MaxOverHops), e \in Transports}

RawURLs ==
    {ExampleBase,
     <<"http:", "//", "example.com", "/a", "?q">>,
     << >>,
     <<"/a">>,
     <<"https:", "/a">>,
     <<"https:", "//">>,
     <<"mailto:", "a">>,
     <<"https:", "//", "example.com", "%zz">>}

InitFetcher ==
    /\ InitWith(Targets, [c \in Callers |-> << >>], FALSE, CalmEnv)
    /\ page = [htmlContent |-> EmptyContent, baseURL |-> ExampleBase]
    /\ parsed = Nil
    /\ site \in [rawURL : RawURLs, web : Webs]
    /\ fetched = Nil

SpecFetch == InitFetcher /\ [][DoFetch \/ CrawlFailed]_vars

\* ================================================================ claims
\* The step in which request goroutine r executes the select of QueueURL.
SendStep(r) == hpc[r] = "send" /\ hpc'[r] # "send"

Status(id) == db.urls[id].status
ErrorMessage(id) == db.urls[id].error_message

\* The job goroutine w has in hand is for target id.
Holds(w, id) == wjob[w] # Nil /\ wjob[w][1].URLID = id

RunningBeforeTerminal ==
    [][\A id \in URLIDs :
          (Status(id)' # Status(id)
           /\ Status(id)' \in {StatusCompleted, StatusError})
              => sawRunning[id]]_vars

\* C3: the queue never holds more than queueSize (100) jobs; on a started
\* dispatcher from which no job has been dequeued, the first 100 QueueURL
\* calls succeed and append their job, every later one (the 101st) returns
\* the queue-full error and leaves the queue as it is.
QueueCapacity ==
    /\ [](Len(queue) <= queueSize)
    /\ []((~closed /\ ~everDequeued) => Len(queue) = Min(nSends, queueSize))
    /\ [][\A r \in Handlers :
            (SendStep(r) /\ ~closed /\ ~everDequeued) =>
                IF nSends < queueSize
                THEN /\ hres'[r] = "ok"
                     /\ queue' = Append(queue, CrawlJob(Head(hurls[r]).ID))
                ELSE /\ hres'[r] = "full"
                     /\ queue' = queue]_vars

\* The 101st call has returned queue-full on the full, undrained queue.
QueueCapacityWitness ==
    /\ ~closed /\ ~everDequeued
    /\ nSends = queueSize + 1
    /\ Len(queue) = queueSize
    /\ \E r \in Handlers : hpc[r] = "respond" /\ hres[r] = "full"

\* The step in which a QueueURL call of request goroutine r returns.
QueueURLReturns(r) ==
    /\ hpc[r] \in {"check", "send"}
    /\ hres'[r] # "none"
    /\ (hpc'[r] # hpc[r] \/ hurls'[r] # hurls[r])

\* C4: every QueueURL call returns either success, its job appended to the
\* queue, or an error value, the queue unchanged; also next to a Stop.
SubmissionTwoOutcomes ==
    [][\A r \in Handlers :
          QueueURLReturns(r) =>
              \/ /\ hres'[r] = "ok"
                 /\ queue' = Append(queue, CrawlJob(Head(hurls[r]).ID))
              \/ /\ hres'[r] \in {"not_running", "full"}
                 /\ queue' = queue]_vars

\* The step in which goroutine w ends the processing of a job that it had
\* set to running, on a failure.
EndsFailed(w) ==
    /\ wpc[w] \in {"fetch", "save_results", "save_links", "status_tx", "commit"}
    /\ wpc'[w] = "sleep"
    /\ wlog'[w].outcome # "ok"

\* C5: when the fetch, a save, the status update to completed or the commit
\* of a job fails, the processing ends with the target in status error with
\* the failure's message and with no write of the transaction committed (a
\* failure of the write of status error itself apart).
FailureEndsInError ==
    [][\A w \in Workers :
          (EndsFailed(w) /\ wlog'[w].errorWrite # "failed") =>
              LET id == wjob[w][1].URLID
              IN  /\ Status(id)' = StatusError
                  /\ ErrorMessage(id)' = wlog'[w].msg
                  /\ db'.crawl_results = db.crawl_results
                  /\ db'.found_links = db.found_links
                  /\ tx'[w] = EmptyTx]_vars

\* C6: the rows of crawl_results and found_links of a target and a change
\* of its status to completed become visible only together, in the commit
\* step of a job of that target, and then they are the rows of that crawl;
\* every other step leaves the committed rows as they were.
AtomicCommit ==
    [][\A id \in URLIDs :
          (\/ db'.crawl_results[id] # db.crawl_results[id]
           \/ db'.found_links[id] # db.found_links[id]
           \/ (Status(id)' = StatusCompleted /\ Status(id) # StatusCompleted))
          => \E w \in Workers :
                /\ wpc[w] = "commit" /\ wpc'[w] = "sleep" /\ Holds(w, id)
                /\ db'.crawl_results[id] = << CrawlResultRow(id, wdata[w][1]) >>
                /\ db'.found_links[id] = AllLinks(id, wdata[w][1])
                /\ Status(id)' = StatusCompleted
                /\ ErrorMessage(id)' = Nil]_vars

\* A crawl that found links has been committed.
AtomicCommitWitness ==
    \E id \in URLIDs, w \in Workers :
        /\ wpc[w] = "sleep" /\ wlog[w].outcome = "ok" /\ Holds(w, id)
        /\ Status(id) = StatusCompleted
        /\ Len(db.crawl_results[id]) = 1
        /\ db.found_links[id] # << >>

\* C7: a target never has more than one crawl_results row, and once a crawl
\* of it was committed its rows are those of the last committed crawl: the
\* result row of that crawl and its links, cut to maxLinksToSave.
RecrawlReplaces ==
    \A id \in URLIDs :
        /\ Len(db.crawl_results[id]) <= 1
        /\ crawlLog[id] # << >> =>
             LET last == crawlLog[id][Len(crawlLog[id])]
             IN  /\ db.crawl_results[id] = << CrawlResultRow(id, last) >>
                 /\ db.found_links[id] = AllLinks(id, last)

\* Two crawls with different pages have been committed for one target.
RecrawlReplacesWitness ==
    \E id \in URLIDs :
        /\ Len(crawlLog[id]) = 2
        /\ crawlLog[id][1] = DocA /\ crawlLog[id][2] = DocB
        /\ db.found_links[id] = AllLinks(id, DocB)

\* C8: a target has an error message exactly when its status is error.
MessageIffError ==
    \A id \in URLIDs : (ErrorMessage(id) # Nil) <=> (Status(id) = StatusError)

\* A target has failed and carries the message; a handler that read it so
\* has had its job accepted and is about to write queued.
MessageIffErrorWitness ==
    \E id \in URLIDs, r \in Handlers :
        /\ Status(id) = StatusError
        /\ ErrorMessage(id) # Nil
        /\ hpc[r] = "update"
        /\ Head(hurls[r]) = [ID |-> id, Status |-> StatusError]

LiveWorkers == {w \in Workers : wpc[w] # "none"}

\* C9: while the dispatcher has not been stopped, any number of Start
\* calls leaves exactly one worker loop once it is running, none before.
SingleWorkerAfterStarts ==
    ~closed => Cardinality(LiveWorkers) = (IF isRunning THEN 1 ELSE 0)

Processing ==
    {"run", "fetch", "save_results", "save_links", "status_tx", "commit"}

\* Goroutine w has ended its job with the write of completed or of error.
TerminalWritten(w) ==
    /\ wpc[w] = "sleep"
    /\ (wlog[w].outcome = "ok" \/ wlog[w].errorWrite = "done")

\* C11: a job that is being processed when Stop is called runs on to its
\* write of completed or error, and after Stop no job is taken from the queue
\* into processing.
StopSparesJobInHand ==
    /\ \A w \in Workers :
           (closed /\ wpc[w] \in Processing) ~> TerminalWritten(w)
    /\ [][closed => \A w \in Workers :
                        ~(wpc[w] = "recv" /\ wpc'[w] = "run")]_vars

InQueue(id) == \E i \in 1..Len(queue) : queue[i].URLID = id

InHand(id) == \E w \in Workers : Holds(w, id) /\ wpc[w] \in Processing

WasAccepted(id) == \E i \in 1..Len(accepted) : accepted[i] = id

\* A request is under way that submits target id or has just submitted it.
BeingSubmitted(id) ==
    \E r \in Handlers :
        /\ hpc[r] \in {"check", "send", "update"}
        /\ \E i \in 1..Len(hurls[r]) : hurls[r][i].ID = id

Terminal(id) == Status(id) \in {StatusCompleted, StatusError}

\* C12: with the dispatcher started and never stopped, a job in the queue
\* is eventually taken into processing, a job in processing eventually gets
\* its write of completed or error, and a target that was submitted and has
\* no job waiting or in processing and no submission under way has status
\* completed or error.
AcceptedJobsFinish ==
    /\ \A id \in Targets : InQueue(id) ~> InHand(id)
    /\ \A w \in Workers : (wpc[w] \in Processing) ~> TerminalWritten(w)
    /\ [](\A id \in URLIDs :
             (WasAccepted(id) /\ ~InQueue(id) /\ ~InHand(id)
              /\ ~BeingSubmitted(id)) => Terminal(id))

Count(log, id) == Cardinality({i \in 1..Len(log) : log[i] = id})

\* C13: for every target the jobs taken into processing and the jobs still
\* waiting are together never more than the jobs accepted for it, and the
\* queue grows only by an accepted QueueURL call, never by a step of the
\* worker.
ProcessedAtMostOnce ==
    /\ [](\A id \in URLIDs :
             Count(started, id) + Count([i \in 1..Len(queue) |-> queue[i].URLID], id)
                 <= Count(accepted, id))
    /\ [][Len(queue') > Len(queue) =>
             \E r \in Handlers : SendStep(r) /\ hres'[r] = "ok"]_vars

\* A target was submitted twice, both crawls failed and the worker waits
\* on the empty queue: two attempts, neither repeated.
ProcessedAtMostOnceWitness ==
    \E id \in URLIDs :
        /\ Count(accepted, id) = 2 /\ Count(started, id) = 2
        /\ Status(id) = StatusError
        /\ crawlLog[id] = << >>
        /\ queue = << >>
        /\ \E w \in Workers : wpc[w] = "recv"

\* C14: the jobs are taken into processing in the order of their
\* acceptance: the jobs started are the first of the jobs accepted.
FifoOrder ==
    /\ Len(started) <= Len(accepted)
    /\ \A i \in 1..Len(started) : started[i] = accepted[i]

\* Target 2 was accepted before target 1 and both were started, 2 first.
FifoOrderWitness ==
    /\ accepted = <<2, 1>>
    /\ started = <<2, 1>>

\* The step in which performCrawl returns the fetcher's error.
FetchFails(w) == wpc[w] = "fetch" /\ wpc'[w] = "sleep"

\* C15: when the fetch of a job returns an error, the extractor is not
\* invoked, no crawl result and no found link of any target is created,
\* deleted or changed, no other target's row changes, and the target's row
\* changes at most in its status, to error, and its message, to the
\* fetcher's message.
FetchErrorFrame ==
    [][\A w \in Workers :
          FetchFails(w) =>
              LET urlID == wjob[w][1].URLID
              IN  /\ wdata'[w] = Nil
                  /\ db'.crawl_results = db.crawl_results
                  /\ db'.found_links = db.found_links
                  /\ \A id \in URLIDs \ {urlID} : db'.urls[id] = db.urls[id]
                  /\ wlog'[w].outcome = "fetch_failed"
                  /\ wlog'[w].msg # Nil /\ wlog'[w].msg[1] \in FetchErrors
                  /\ IF wlog'[w].errorWrite = "done"
                     THEN db'.urls[urlID] =
                              [status |-> StatusError,
                               error_message |-> wlog'[w].msg]
                     ELSE db'.urls[urlID] = db.urls[urlID]]_vars

\* A fetch answered HTTP 404 for a target that has a crawl result and found
\* links from an earlier crawl: the rows are still there.
FetchErrorFrameWitness ==
    \E w \in Workers :
        /\ wpc[w] = "sleep"
        /\ wlog[w].outcome = "fetch_failed"
        /\ wlog[w].errorWrite = "done"
        /\ wlog[w].msg = Some("HTTP 404: 404 Not Found")
        /\ db.urls[wjob[w][1].URLID].status = StatusError
        /\ db.urls[wjob[w][1].URLID].error_message
               = Some("HTTP 404: 404 Not Found")
        /\ db.crawl_results[wjob[w][1].URLID] # << >>
        /\ db.found_links[wjob[w][1].URLID] # << >>

\* What a finished call of Parse returned.
Returned == parsed # Nil /\ ~parsed[1].err
Data == parsed[1].data[1]

\* The elements with the given tag among the nodes of the page.
ElementsOf(tag) ==
    {i \in 1..Len(page.htmlContent.nodes) :
        /\ page.htmlContent.nodes[i].Type = "element"
        /\ page.htmlContent.nodes[i].Data = tag}

\* C16: for a document that html.Parse parses and that has N elements hK,
\* Parse returns the heading count N for level K, for each K in 1..6, at
\* whatever depth the headings are and whatever else the document holds.
HeadingCountsExact ==
    (parsed # Nil /\ ~page.htmlContent.broken) =>
        /\ Returned
        /\ \A k \in HeadingKeys :
               MapGet(Data.HeadingCounts, k) = Cardinality(ElementsOf(k))

\* Two h2 elements, one of them inside another element, were counted.
HeadingCountsExactWitness ==
    /\ Returned
    /\ Cardinality(ElementsOf("h2")) = 2
    /\ \E i \in ElementsOf("h2") : page.htmlContent.nodes[i].parent # 0
    /\ MapGet(Data.HeadingCounts, "h2") = 2
    /\ MapGet(Data.HeadingCounts, "h6") = 0

\* The host written in a URL string: the part after "//", if it is a host.
HostIn(url) ==
    IF \E i \in 1..(Len(url) - 1) : url[i] = "//" /\ url[i + 1] \in Parts.host
    THEN url[(CHOOSE i \in 1..(Len(url) - 1) : url[i] = "//") + 1]
    ELSE ""

\* The anchors of the page that extractLinkInfo accepts as links: the href
\* is not passed over and parses.
AcceptedAnchors ==
    {i \in ElementsOf("a") :
        LET href == hrefOf(page.htmlContent.nodes[i])
        IN  ~Skipped(href) /\ \A j \in 1..Len(href) : href[j] \notin Parts.bad}

\* A reference with no scheme and no authority: a path, a query, a fragment.
RelativeRef(href) ==
    href # << >> /\ Head(href) \notin Parts.scheme /\ Head(href) # "//"

SameHost(url, baseURL) == ToLower(HostIn(url)) = ToLower(HostIn(baseURL))

Below(i, j) == i \in AncestorsOrSelf(page.htmlContent.nodes, j)

\* C18: has_login_form is true if and only if some form element has in its
\* subtree an input whose type attribute is "password" in any letter case;
\* forms with other inputs only, and a password input outside every form,
\* give false.
LoginFormIffPasswordInForm ==
    Returned =>
        (Data.HasLoginForm <=>
            \E f \in ElementsOf("form"), j \in ElementsOf("input") :
                /\ Below(f, j)
                /\ \E a \in 1..Len(page.htmlContent.nodes[j].Attr) :
                       /\ page.htmlContent.nodes[j].Attr[a].Key = "type"
                       /\ page.htmlContent.nodes[j].Attr[a].Val
                              \in {"password", "PASSWORD"})

\* A form that holds, inside a div, an input of type PASSWORD: found.
LoginFormIffPasswordInFormWitness ==
    /\ Returned /\ Data.HasLoginForm
    /\ \E f \in ElementsOf("form"), j \in ElementsOf("input") :
           /\ Below(f, j)
           /\ page.htmlContent.nodes[j].parent # f
           /\ page.htmlContent.nodes[j].Attr = <<Attribute("type", "PASSWORD")>>

\* The text below node i of the page, in document order, trimmed.
RECURSIVE TextFrom(_, _)
TextFrom(i, j) ==
    IF j > Len(page.htmlContent.nodes) THEN << >>
    ELSE (IF Below(i, j) /\ page.htmlContent.nodes[j].Type = "text"
          THEN page.htmlContent.nodes[j].Data ELSE << >>)
         \o TextFrom(i, j + 1)

TitleText(i) == TrimSpace(TextFrom(i, i))

\* The first title element of the page in document order, 0 without one.
FirstTitle ==
    IF ElementsOf("title") = {} THEN 0
    ELSE CHOOSE i \in ElementsOf("title") :
             \A j \in ElementsOf("title") : i <= j

\* C19: the title returned is the trimmed text of the first title element
\* in document order; it is absent when the page has no title element or
\* when the first one is empty after trimming, whatever later titles hold.
TitleIsFirstTitle ==
    Returned =>
        Data.PageTitle =
            IF FirstTitle = 0 \/ TitleText(FirstTitle) = << >> THEN Nil
            ELSE Some(TitleText(FirstTitle))

\* C20: for every content, html.Parse failing on it or not, Parse with a
\* base URL that parses returns a result and no error; for the empty
\* document every heading count and both link lists are empty, the login
\* flag is false, and title and version are absent.
ParseNeverFails ==
    (parsed # Nil /\ page.baseURL = ExampleBase) =>
        /\ ~parsed[1].err /\ parsed[1].data # Nil
        /\ page.htmlContent = EmptyContent =>
               /\ \A k \in HeadingKeys : MapGet(Data.HeadingCounts, k) = 0
               /\ Data.InternalLinks = << >> /\ Data.ExternalLinks = << >>
               /\ ~Data.HasLoginForm
               /\ Data.PageTitle = Nil /\ Data.HTMLVersion = Nil

\* The empty document was parsed.
ParseNeverFailsWitness ==
    /\ Returned /\ page.htmlContent = EmptyContent
    /\ Data.PageTitle = Nil /\ Data.HTMLVersion = Nil

\* The anchors of the page in document order, as a list of node indices.
AnchorList ==
    LET found == AcceptedAnchors
        IsAnchor(i) == i \in found
    IN  SelectSeq([i \in 1..Len(page.htmlContent.nodes) |-> i], IsAnchor)

\* Anchor i of the page leads to the page's own host.
LeadsHome(i) ==
    LET href == hrefOf(page.htmlContent.nodes[i])
    IN  RelativeRef(href) \/ SameHost(href, page.baseURL)

\* The link rows committed for the one target.
LinkRows == db.found_links[CHOOSE id \in URLIDs : TRUE]
Stored == \E id \in URLIDs : db.urls[id].status = StatusCompleted

\* C21: a successful crawl persists min(200, number of links found) rows,
\* and they are the rows of the first links of the page in document order:
\* as many of them are internal as there are links to the page's own host
\* among those first links.
LinkCapKeepsDocumentOrder ==
    Stored =>
        LET anchors == AnchorList
            rows == LinkRows
            kept == Min(maxLinksToSave, Len(anchors))
        IN  /\ Len(rows) = kept
            /\ Cardinality({i \in 1..Len(rows) : rows[i].IsInternal})
                   = Cardinality({i \in 1..kept : LeadsHome(anchors[i])})

\* The positions of handleCrawlSuccess between db.Begin and the end of
\* tx.Commit: the goroutine holds an open transaction.
InTransaction == {"save_results", "save_links", "status_tx", "commit"}

JobsInHand == {w \in Workers : wpc[w] \in Processing}

OpenTransactions == {w \in Workers : wpc[w] \in InTransaction}

\* C22: whatever Start, Stop and QueueURL calls are made and however they
\* interleave, at most one worker loop is active, at most one job is being
\* processed, and at most one transaction of a job is open.
OneJobAtATime ==
    /\ Cardinality(LiveWorkers) <= 1
    /\ Cardinality(JobsInHand) <= 1
    /\ Cardinality(OpenTransactions) <= 1

\* A step of request goroutine r: StartCrawl or StartBulkCrawl, the QueueURL
\* they call, their update of the row, their response.
RequestStep(r) == hpc'[r] # hpc[r] \/ hurls'[r] # hurls[r]

\* C23: no step of a StartCrawl or StartBulkCrawl request changes the status
\* or the error message of a target whose persisted status is running.
RunningRowOwnedByWorker ==
    [][\A r \in Handlers :
          RequestStep(r) =>
              \A id \in URLIDs :
                  Status(id) = StatusRunning => db'.urls[id] = db.urls[id]]_vars

\* Goroutine w takes a job out of the channel.
DequeueStep(w) == wpc[w] = "recv" /\ queue' # queue

\* The ways processSingleJob ends: success, a failed fetch, a failed write of
\* the results, a failed update to running.
JobEndings ==
    {"ok", "fetch_failed", "save_results_failed", "save_links_failed",
     "status_update_failed", "commit_failed", "run_update_failed"}

\* C24: when the processing of a job ends, however it ends, the worker is at
\* its rate-limit sleep, and it comes back to the receive of the next job
\* only from that sleep.
SleepBetweenJobs ==
    [][\A w \in Workers :
          /\ (wpc[w] \in Processing /\ wpc'[w] \notin Processing)
                 => (wpc'[w] = "sleep" /\ wlog'[w].outcome \in JobEndings)
          /\ (wpc[w] \notin {"recv", "none"} /\ wpc'[w] = "recv")
                 => wpc[w] = "sleep"
          /\ (queue' # queue /\ Len(queue') < Len(queue) /\ wpc'[w] # wpc[w])
                 => DequeueStep(w)]_vars

\* A second job has been taken from the queue after the first one failed.
SleepBetweenJobsWitness ==
    \E w \in Workers, id \in URLIDs :
        /\ wpc[w] = "run"
        /\ Status(id) = StatusError
        /\ ErrorMessage(id) # Nil

\* No goroutine runs processQueue, or the process has ended and its
\* goroutines with it.
LoopsEnded == proc = "exited" \/ \A w \in Workers : wpc[w] = "none"

\* C25: once Stop has closed the queue, the worker loop ends, from its
\* receive, from its sleep and from the processing of a job, with jobs
\* still in the queue or without.
StopEndsWorker == closed ~> LoopsEnded

\* Stop has been called while a job is being processed and another waits.
StopEndsWorkerWitness ==
    /\ closed /\ Alive /\ queue # << >>
    /\ \E w \in Workers : wpc[w] \in Processing

\* The step in which a QueueURL call of request goroutine r returns an error.
QueueURLFails(r) ==
    QueueURLReturns(r) /\ hres'[r] \in {"not_running", "full"}

\* C26: a request whose QueueURL call fails, on a full queue or on a
\* dispatcher that is not running, carries the failure to its answer and
\* leaves the rows and the queue as they are, the URL being done with; a
\* request writes a row only to set it to queued, after QueueURL accepted
\* the job of that row.
FailedSubmissionChangesNothing ==
    [][\A r \in Handlers :
          /\ QueueURLFails(r) =>
                 /\ db' = db
                 /\ queue' = queue
                 /\ hpc'[r] \in {"respond", "check"}
                 /\ hpc'[r] = "respond" => hurls'[r] = << >>
                 /\ \A i \in 1..Len(hurls'[r]) :
                        hurls'[r][i].ID # Head(hurls[r]).ID
          /\ (RequestStep(r) /\ db' # db) =>
                 /\ hpc[r] = "update"
                 /\ hres[r] = "ok"
                 /\ db' = MarkQueued([db |-> db, tx |-> EmptyTx],
                                     Head(hurls[r]).ID).db]_vars

\* A request for a target in status error was refused by the stopped
\* dispatcher and is about to answer; the row is still in status error.
FailedSubmissionChangesNothingWitness ==
    \E r \in Handlers, id \in URLIDs :
        /\ hpc[r] = "respond"
        /\ hres[r] = "not_running"
        /\ closed
        /\ Status(id) = StatusError
        /\ ErrorMessage(id) # Nil

\* C30: the heading-count map that Parse returns has the six keys h1 to h6,
\* each with a count of zero or more, also for a page without a heading.
HeadingMapHasSixKeys ==
    Returned =>
        /\ DOMAIN Data.HeadingCounts = HeadingKeys
        /\ \A k \in DOMAIN Data.HeadingCounts : Data.HeadingCounts[k] >= 0

\* How a call of FetchURL ended: the Type of its error, or success.
Outcome == IF fetched[1].err = Nil THEN "success" ELSE fetched[1].err[1].Type

TransportTypes ==
    {"timeout", "dns_error", "connection_error", "redirect_error", "network"}

\* The URL does not parse, or its scheme is not http or https, or it has no
\* host.
InvalidURL ==
    LET u == urlParse(site.rawURL)
    IN  u.err \/ u.Scheme \notin {"http", "https"} \/ u.Host = ""

\* The Content-Type header names HTML or XHTML, in whatever case.
NamesHTML ==
    \E i \in 1..Len(site.web.ContentType) :
        ToLower(site.web.ContentType[i])
            \in {"text/html", "application/xhtml+xml"}

\* The body is longer than the maximum, or its stream fails within it.
BodyReadFails ==
    \/ site.web.length > MaxPageSize
    \/ site.web.failAfter # Nil /\ site.web.failAfter[1] <= MaxPageSize

\* C27: FetchURL decides in this order: invalid_url, with no request sent;
\* a classified error of the transport; http_error for a status of 400 or
\* more; invalid_content for a Content-Type that is present and names
\* neither HTML nor XHTML; too_large or read_error from the read of the
\* body; success.  No byte of the body is read in a case decided before.
FetchDecidesInOrder ==
    fetched # Nil =>
        LET r == fetched[1]
            requestFails == clientDo(site.web, 0).err # Nil
        IN  /\ IF InvalidURL THEN Outcome = "invalid_url" /\ r.sent = 0
               ELSE IF requestFails THEN Outcome \in TransportTypes
               ELSE IF site.web.StatusCode >= 400 THEN Outcome = "http_error"
               ELSE IF site.web.ContentType # << >> /\ ~NamesHTML
               THEN Outcome = "invalid_content"
               ELSE IF BodyReadFails
               THEN Outcome \in {"too_large", "read_error"}
               ELSE Outcome = "success"
            /\ Outcome \notin {"too_large", "read_error", "success"}
                   => r.read = 0
            /\ (r.resp # Nil) = (Outcome = "success")

\* A response of a type that is not HTML with a body: refused, nothing read.
FetchDecidesInOrderWitness ==
    /\ fetched # Nil
    /\ Outcome = "invalid_content"
    /\ site.web.length > 0
    /\ fetched[1].sent > 0
    /\ fetched[1].read = 0

\* The stream of the body fails within the first MaxPageSize bytes or at
\* the end of a body of at most that length.
StreamFails ==
    site.web.failAfter # Nil /\ site.web.failAfter[1] <= MaxPageSize

\* C28: of a body of length L FetchURL reads at most MaxPageSize + 1 bytes;
\* when the read does not fail it succeeds with the whole body if
\* L <= MaxPageSize and returns too_large with no HTML if L > MaxPageSize,
\* and the target of a too_large job ends in status error with nothing of
\* the page stored.
BodySizeLimit ==
    (fetched # Nil /\ Outcome \in {"success", "too_large", "read_error"}) =>
        LET r == fetched[1]
            L == site.web.length
        IN  /\ r.read <= MaxPageSize + 1
            /\ r.read <= L
            /\ ~StreamFails =>
                   IF L <= MaxPageSize
                   THEN /\ Outcome = "success"
                        /\ r.resp[1].HTML = L
                        /\ r.resp[1].ResponseSize = L
                   ELSE /\ Outcome = "too_large"
                        /\ r.resp = Nil
                        /\ r.read = MaxPageSize + 1
            /\ Outcome = "too_large" =>
                   \A id \in URLIDs :
                       /\ db.crawl_results[id] = << >>
                       /\ db.found_links[id] = << >>
                       /\ \/ Status(id) = StatusQueued
                          \/ /\ Status(id) = StatusError
                             /\ ErrorMessage(id) = Some(r.err[1].Message)

\* A body one byte over the maximum was refused and its job has failed.
BodySizeLimitWitness ==
    /\ fetched # Nil
    /\ Outcome = "too_large"
    /\ site.web.length = MaxPageSize + 1
    /\ \A id \in URLIDs : Status(id) = StatusError

\* C29: FetchURL follows at most MaxRedirects redirects: a chain of up to
\* MaxRedirects redirects is followed to its final response, a longer one
\* ends in redirect_error.
RedirectLimit ==
    (fetched # Nil /\ ~InvalidURL) =>
        LET r == fetched[1]
        IN  /\ r.sent <= MaxRedirects + 1
            /\ IF site.web.hops <= MaxRedirects
               THEN /\ r.sent = site.web.hops + 1
                    /\ Outcome # "redirect_error"
               ELSE Outcome = "redirect_error"
====
